---- MODULE Spec2Model ----
(***************************************************************************)
(* Healthcare transaction ledger: audit log, tiered mempool, wallet        *)
(* challenge/verify and the REST handlers that wire them.                  *)
(*                                                                         *)
(* Conventions                                                             *)
(*  - Every `await` of the TypeScript source is a suspension point: the    *)
(*    code between two awaits is one atomic action, and calls of           *)
(*    different requests interleave at the awaits.                         *)
(*  - Time is counted in seconds (the source counts milliseconds).         *)
(*  - sha256 is modelled as an injective constructor over the string it    *)
(*    digests; JSON.stringify as the sequence of <<key, value>> pairs in   *)
(*    insertion order with undefined values elided.                        *)
(*  - An absent (undefined) optional string is the value Undefined.        *)
(***************************************************************************)
EXTENDS Integers, Sequences, FiniteSets, TLC

(***************************************************************************)
(* Bounds of the model                                                     *)
(***************************************************************************)
\* number of record() calls in one behaviour; they may overlap in any way
MaxRecords == 2

Calls == 1..MaxRecords

\* capacities of the three mempool tiers, scaled down from 100 / 2000 / 8000
Tier1Capacity == 2
Tier2Capacity == 1
Tier3Capacity == 1

\* number of addTransaction calls in one behaviour
MaxAdds == 3

\* number of POST /transactions requests in one behaviour (each makes at most one
\* record() call and one addTransaction call)
MaxRequests == 2

Requests == 1..MaxRequests

\* number of issueNonce and verifySignature calls in one behaviour
MaxWalletCalls == 3

WalletCalls == 1..MaxWalletCalls

\* number of times the wallet clock advances, by half a nonce lifetime each time
MaxTicks == 3

\* number of mempool snapshot writes that may be in flight at once
MaxPending == 2
\* pages of one traversal of the audit log
MaxPages == 5
\* greatest figure of a statistics snapshot
MaxStat == 2

(***************************************************************************)
(* Program constants                                                       *)
(***************************************************************************)
Undefined == "undefined"
AUDIT_ROOT == <<"AUDIT_ROOT">>
DAY_IN_S == 86400
AUDIT_RETENTION_DAYS == 90
RETENTION_EVERY == 50
CACHE_SIZE == 256
\* configured rotation budget, in the units of EntryBytes
AUDIT_LOG_MAX_BYTES == 3
\* priorities are exact decimals counted in millionths: 0.85 and 0.6
TIER1_THRESHOLD == 850000
TIER2_THRESHOLD == 600000
WALLET_NONCE_TTL_SECONDS == 300
\* an absent hintedTier
NoTier == 0
MEMPOOL_CAPACITY == [tier1 |-> Tier1Capacity, tier2 |-> Tier2Capacity, tier3 |-> Tier3Capacity]

VARIABLES
    backend,            \* "file": file-backed AuditLogService, "sql": database-backed one
    auditLog,           \* durable log: lines of audit-log.jsonl, or rows of audit_log by sequence
    auditFileExists,    \* whether audit-log.jsonl exists (file backend)
    auditArchives,      \* rotated log files, oldest first
    nextSequence,       \* AuditLogService.nextSequence (file backend)
    lastIntegrityHash,  \* AuditLogService.lastIntegrityHash
    cache,              \* AuditLogService.cache, newest first
    dbSerial,           \* next value of the BIGSERIAL sequence column (sql backend)
    rec,                \* rec[c]: position and locals of the c-th record() call
    now,                \* wall clock, seconds
    uuidCtr,            \* source of randomUUID() values
    started,            \* number of record() calls started so far
    appended,           \* history: every entry whose durable append completed, in order
    overlapped,         \* history: some record() call started while another was in progress
    swept,              \* history: a rotation, a retention rewrite or a ledger reset happened
    appendFailed,       \* history: some durable append threw
    startedEmpty,       \* history: the log was empty when the service was initialized
    snapshot,           \* Mempool.snapshot: the three queues
    mempoolFile,        \* content of the durable mempool snapshot file
    pending,            \* snapshot writes in flight: content and the call that waits for it
    addCtr,             \* number of addTransaction calls so far
    lastAdd,            \* the addTransaction whose synchronous part has just run: its
                        \* result and its queue before and after
    req,                \* req[r]: position, body and outcome of the r-th POST /transactions
    wallets,            \* WalletRegistry.state.wallets, by normalized address
    registryFile,       \* content of the durable wallet registry file
    nonceStore,         \* WalletAuthService.nonceStore, by normalized address
    nonceFile,          \* content of the durable nonce file
    wcall,              \* wcall[k]: position and locals of the k-th wallet call
    wstarted,           \* number of wallet calls started so far
    qres,               \* the last AuditLogService.query: its options, what it read and
                        \* what it returned
    scored,             \* a ContextEngine.calculatePriority call: the transaction, the
                        \* statistics its provider returns, and the breakdown returned
    trav,               \* history: the pages of the traversal that the last query belongs
                        \* to, the log its first page read, and whether every page read
                        \* that same log
    phase               \* history, by address: "active" a nonce was stored, "deleted" a
                        \* verification removed it, "consumed" that verification has
                        \* returned success and no nonce was stored since

auditVars == <<backend, auditLog, auditFileExists, auditArchives, nextSequence,
               lastIntegrityHash, cache, dbSerial, rec, now, uuidCtr, started,
               appended, overlapped, swept, appendFailed, startedEmpty>>

poolVars == <<snapshot, mempoolFile, pending, addCtr, lastAdd>>

httpVars == <<req>>

walletVars == <<wallets, registryFile, nonceStore, nonceFile, wcall, wstarted, phase>>

\* the audit variables but the clock
auditState == <<backend, auditLog, auditFileExists, auditArchives, nextSequence,
                lastIntegrityHash, cache, dbSerial, rec, uuidCtr, started,
                appended, overlapped, swept, appendFailed, startedEmpty>>

\* the variables of the read-only operations
queryVars == <<qres, trav, scored>>

nonAuditVars == <<poolVars, httpVars, walletVars, queryVars>>

nonPoolVars == <<auditVars, httpVars, walletVars, queryVars>>

nonWalletVars == <<auditState, poolVars, httpVars, queryVars>>

vars == <<auditVars, poolVars, httpVars, walletVars, queryVars>>

(***************************************************************************)
(* utils/crypto.ts and JSON                                                *)
(***************************************************************************)
sha256(value) == <<"sha256", value>>

\* JSON.stringify of an object literal: keys in insertion order, a key whose
\* value is undefined is left out
JsonField(key, value) == IF value = Undefined THEN <<>> ELSE << <<key, value>> >>

\* JSON.stringify({ prevHash, ...payload }) for the payload of the file-backed record()
StringifyFilePayload(prevHash, p) ==
    << <<"prevHash", prevHash>>, <<"sequence", p.sequence>>, <<"timestamp", p.timestamp>> >>
    \o JsonField("action", p.action) \o JsonField("actorId", p.actorId)
    \o JsonField("actorType", p.actorType) \o JsonField("resource", p.resource)
    \o JsonField("outcome", p.outcome) \o JsonField("patientId", p.patientId)
    \o JsonField("ipAddress", p.ipAddress) \o JsonField("blockHash", p.blockHash)
    \o JsonField("details", p.details) \o JsonField("metadata", p.metadata)
    \o << <<"tags", p.tags>>, <<"channel", p.channel>> >>

\* JSON.stringify({ prevHash, ...payload }) for the payload of the database-backed
\* record(): the payload has neither sequence nor channel
StringifySqlPayload(prevHash, p) ==
    << <<"prevHash", prevHash>>, <<"timestamp", p.timestamp>> >>
    \o JsonField("action", p.action) \o JsonField("actorId", p.actorId)
    \o JsonField("actorType", p.actorType) \o JsonField("resource", p.resource)
    \o JsonField("outcome", p.outcome) \o JsonField("patientId", p.patientId)
    \o JsonField("ipAddress", p.ipAddress) \o JsonField("blockHash", p.blockHash)
    \o JsonField("details", p.details) \o JsonField("metadata", p.metadata)
    \o << <<"tags", p.tags>> >>

\* a line written without its last payload key, channel
StringifyEntryBare(e) ==
    LET payload == StringifyFilePayload(e.prevHash, e)
    IN  << <<"id", e.id>> >> \o SubSeq(payload, 2, Len(payload) - 1)
        \o << <<"prevHash", e.prevHash>>, <<"integrityHash", e.integrityHash>> >>

\* JSON.stringify(entry) for an entry { id, ...basePayload, prevHash, integrityHash }
StringifyEntry(e) ==
    << <<"id", e.id>> >> \o Tail(StringifyFilePayload(e.prevHash, e))
    \o << <<"prevHash", e.prevHash>>, <<"integrityHash", e.integrityHash>> >>

\* JSON.parse(line) as AuditLogEntry: a key the line does not hold reads undefined
ParseEntry(line) ==
    LET Get(key) == IF \E i \in 1..Len(line) : line[i][1] = key
                    THEN line[CHOOSE i \in 1..Len(line) : line[i][1] = key][2]
                    ELSE Undefined
    IN  [id |-> Get("id"), sequence |-> Get("sequence"), timestamp |-> Get("timestamp"),
         action |-> Get("action"), actorId |-> Get("actorId"),
         actorType |-> Get("actorType"), resource |-> Get("resource"),
         outcome |-> Get("outcome"), patientId |-> Get("patientId"),
         ipAddress |-> Get("ipAddress"), blockHash |-> Get("blockHash"),
         details |-> Get("details"), metadata |-> Get("metadata"), tags |-> Get("tags"),
         channel |-> Get("channel"), prevHash |-> Get("prevHash"),
         integrityHash |-> Get("integrityHash")]

\* the entries a reader parses from the lines entries.map(JSON.stringify)
Rewritten(entries) == [i \in 1..Len(entries) |-> ParseEntry(StringifyEntry(entries[i]))]

\* file-backed AuditLogService.computeIntegrityHash: reads this.lastIntegrityHash
computeIntegrityHash(p) == sha256(StringifyFilePayload(lastIntegrityHash, p))

\* database-backed AuditLogService.computeIntegrityHash
computeIntegrityHashSql(p, prevHash) == sha256(StringifySqlPayload(prevHash, p))

(***************************************************************************)
(* Audit log: inputs of record()                                           *)
(***************************************************************************)
\* input.timestamp is <<>> when absent and <<t>> when the caller supplies it;
\* input.tags is the list after `?? []`
MinimalInput ==
    [id |-> Undefined, timestamp |-> <<>>, action |-> "Transaction.Submit",
     actorId |-> "u1", actorType |-> "api", resource |-> "transaction:t1",
     outcome |-> "success", patientId |-> Undefined, ipAddress |-> Undefined,
     blockHash |-> Undefined, details |-> Undefined, metadata |-> Undefined,
     tags |-> <<>>, channel |-> Undefined]

FullInput ==
    [id |-> "AUD-1", timestamp |-> <<0>>, action |-> "System.Bootstrap",
     actorId |-> "camtc-node", actorType |-> "system", resource |-> "ledger.bootstrap",
     outcome |-> "success", patientId |-> "CAMTC-1000", ipAddress |-> "10.0.0.1",
     blockHash |-> "0xabc123", details |-> "File-based ledger initialized",
     metadata |-> "{\"source\":\"rest-api\"}",
     tags |-> <<"startup", "healthcheck">>, channel |-> "node"]

\* a required field is missing: validateInput throws
InvalidInput == [MinimalInput EXCEPT !.outcome = ""]

RecordInputs == {MinimalInput, FullInput, InvalidInput}

\* AuditLogService.validateInput: does not throw
validateInput(input) ==
    /\ input.action \notin {"", Undefined}
    /\ input.actorId \notin {"", Undefined}
    /\ input.actorType \notin {"", Undefined}
    /\ input.resource \notin {"", Undefined}
    /\ input.outcome \notin {"", Undefined}

NoEntry == [id |-> Undefined]

\* the k-th record() call of a behaviour runs in slot k
FreeSlot(c) == c = started + 1

IdleCall == [pc |-> "idle", entry |-> NoEntry, cutoff |-> 0, retained |-> <<>>,
             result |-> "none"]

\* the fields of basePayload that record() copies from its input
PayloadOf(input, timestamp) ==
    [timestamp |-> timestamp, action |-> input.action, actorId |-> input.actorId,
     actorType |-> input.actorType, resource |-> input.resource,
     outcome |-> input.outcome, patientId |-> input.patientId,
     ipAddress |-> input.ipAddress, blockHash |-> input.blockHash,
     details |-> input.details, metadata |-> input.metadata, tags |-> input.tags]

\* stable sort by ascending sequence: entries.sort((a, b) => a.sequence - b.sequence)
RECURSIVE InsertBySequence(_, _)
InsertBySequence(sorted, e) ==
    IF sorted = <<>> THEN <<e>>
    ELSE IF sorted[Len(sorted)].sequence <= e.sequence THEN Append(sorted, e)
    ELSE Append(InsertBySequence(SubSeq(sorted, 1, Len(sorted) - 1), e), sorted[Len(sorted)])

RECURSIVE SortBySequence(_)
SortBySequence(entries) ==
    IF entries = <<>> THEN <<>>
    ELSE InsertBySequence(SortBySequence(SubSeq(entries, 1, Len(entries) - 1)),
                          entries[Len(entries)])

Reverse(s) == [i \in 1..Len(s) |-> s[Len(s) + 1 - i]]

\* the first n elements, s.slice(0, n)
Slice(s, n) == SubSeq(s, 1, IF Len(s) < n THEN Len(s) ELSE n)

\* the last n elements, s.slice(-n)
SliceLast(s, n) == SubSeq(s, IF Len(s) < n THEN 1 ELSE Len(s) - n + 1, Len(s))

(***************************************************************************)
(* File-backed AuditLogService (the service the server constructs)         *)
(***************************************************************************)
\* a log kept from an earlier run, pruned by retention down to its newest entry
SeedPayload ==
    [sequence |-> RETENTION_EVERY - 2, channel |-> "system"] @@ PayloadOf(MinimalInput, 0)

SeedEntry ==
    SeedPayload @@
    [id |-> "aud-48-0", prevHash |-> sha256(<<"pruned">>),
     integrityHash |-> sha256(StringifyFilePayload(sha256(<<"pruned">>), SeedPayload))]

\* record(), lines 59-87: validate, take the next sequence, build the entry, start
\* the durable append
FileRecordBegin(c, input) ==
    /\ backend = "file"
    /\ FreeSlot(c)
    /\ validateInput(input)
    /\ LET timestamp == IF input.timestamp = <<>> THEN now ELSE input.timestamp[1]
           sequence == nextSequence
           basePayload ==
               [sequence |-> sequence,
                channel |-> IF input.channel = Undefined THEN "system" ELSE input.channel]
               @@ PayloadOf(input, timestamp)
           entry ==
               basePayload @@
               [id |-> IF input.id = Undefined
                       THEN "aud-" \o ToString(sequence) \o "-" \o ToString(uuidCtr)
                       ELSE input.id,
                prevHash |-> lastIntegrityHash,
                integrityHash |-> computeIntegrityHash(basePayload)]
       IN  /\ nextSequence' = nextSequence + 1
           /\ rec' = [rec EXCEPT ![c] = [IdleCall EXCEPT !.pc = "append", !.entry = entry]]
    /\ uuidCtr' = uuidCtr + 1
    /\ started' = started + 1
    /\ overlapped' = (overlapped \/ \E d \in Calls \ {c} : rec[d].pc # "idle")
    /\ UNCHANGED <<backend, auditLog, auditFileExists, auditArchives, lastIntegrityHash,
                   cache, dbSerial, now, appended, swept, appendFailed, startedEmpty>>

FileRecordStart(c, input) ==
    /\ FileRecordBegin(c, input)
    /\ UNCHANGED nonAuditVars

\* record(), line 59: validateInput throws, nothing else has run
RecordReject(c, input) ==
    /\ FreeSlot(c)
    /\ ~validateInput(input)
    /\ rec' = [rec EXCEPT ![c] = [IdleCall EXCEPT !.result = "invalid"]]
    /\ started' = started + 1
    /\ UNCHANGED <<backend, auditLog, auditFileExists, auditArchives, nextSequence,
                   lastIntegrityHash, cache, dbSerial, now, uuidCtr,
                   appended, overlapped, swept, appendFailed, startedEmpty>>
    /\ UNCHANGED nonAuditVars

\* fs.appendFile completes: the line is in the file (the file is created when missing)
FileAppendWrite(c) ==
    /\ backend = "file"
    /\ rec[c].pc = "append"
    /\ auditLog' = Append(auditLog, rec[c].entry)
    /\ auditFileExists' = TRUE
    /\ appended' = Append(appended, rec[c].entry)
    /\ rec' = [rec EXCEPT ![c].pc = "appended"]
    /\ UNCHANGED <<backend, auditArchives, nextSequence, lastIntegrityHash, cache,
                   dbSerial, now, uuidCtr, started, overlapped, swept, appendFailed,
                   startedEmpty>>
    /\ UNCHANGED nonAuditVars

\* fs.appendFile throws: record() rejects; nextSequence was already incremented
FileAppendFail(c) ==
    /\ backend = "file"
    /\ rec[c].pc = "append"
    /\ rec' = [rec EXCEPT ![c] = [IdleCall EXCEPT !.result = "error"]]
    /\ appendFailed' = TRUE
    /\ UNCHANGED <<backend, auditLog, auditFileExists, auditArchives, nextSequence,
                   lastIntegrityHash, cache, dbSerial, now, uuidCtr, started, appended,
                   overlapped, swept, startedEmpty>>
    /\ UNCHANGED nonAuditVars

\* record(), lines 96-99, after rotateIfNeeded returned: every 50th sequence enters
\* enforceRetention, which fixes the cutoff and starts reading the log; otherwise
\* record() returns the entry
AfterRotate(c) ==
    IF AUDIT_RETENTION_DAYS > 0 /\ rec[c].entry.sequence % RETENTION_EVERY = 0
    THEN [rec EXCEPT ![c].pc = "retentionRead",
                     ![c].cutoff = now - AUDIT_RETENTION_DAYS * DAY_IN_S]
    ELSE [rec EXCEPT ![c] = [IdleCall EXCEPT !.result = "ok"]]

\* a record() that leaves the tail at the digest it linked to
AdvanceTailStale(entry) == entry.prevHash

\* the value record() stores in lastIntegrityHash after the append, line 88
AdvanceTail(entry) == entry.integrityHash

\* record(), lines 88-95: advance the tail, push to the cache, enter rotateIfNeeded
FileAppendResume(c) ==
    /\ backend = "file"
    /\ rec[c].pc = "appended"
    /\ lastIntegrityHash' = AdvanceTail(rec[c].entry)
    /\ cache' = Slice(<<rec[c].entry>> \o cache, CACHE_SIZE)
    /\ rec' = IF AUDIT_LOG_MAX_BYTES <= 0 THEN AfterRotate(c) ELSE [rec EXCEPT ![c].pc = "stat"]
    /\ UNCHANGED <<backend, auditLog, auditFileExists, auditArchives, nextSequence,
                   dbSerial, now, uuidCtr, started, appended, overlapped, swept,
                   appendFailed, startedEmpty>>
    /\ UNCHANGED nonAuditVars

\* length of one JSON line, in units: an entry that carries the optional free-text
\* fields takes two units, any other entry one
EntryBytes(e) == IF e.details = Undefined THEN 1 ELSE 2

RECURSIVE SumBytes(_)
SumBytes(entries) ==
    IF entries = <<>> THEN 0
    ELSE EntryBytes(entries[1]) + SumBytes(SubSeq(entries, 2, Len(entries)))

\* stats.size of the log file
FileBytes == SumBytes(auditLog)

\* rotateIfNeeded, lines 309-312: fs.stat; a missing file throws into the catch
RotateStat(c) ==
    /\ backend = "file"
    /\ rec[c].pc = "stat"
    /\ rec' = IF auditFileExists /\ FileBytes >= AUDIT_LOG_MAX_BYTES
              THEN [rec EXCEPT ![c].pc = "rename"]
              ELSE AfterRotate(c)
    /\ UNCHANGED <<backend, auditLog, auditFileExists, auditArchives, nextSequence,
                   lastIntegrityHash, cache, dbSerial, now, uuidCtr, started, appended,
                   overlapped, swept, appendFailed, startedEmpty>>
    /\ UNCHANGED nonAuditVars

\* rotateIfNeeded, line 316: fs.rename moves the log to the archive name
RotateRename(c) ==
    /\ backend = "file"
    /\ rec[c].pc = "rename"
    /\ IF auditFileExists
       THEN /\ auditArchives' = Append(auditArchives, auditLog)
            /\ auditLog' = <<>>
            /\ auditFileExists' = FALSE
            /\ swept' = TRUE
            /\ rec' = [rec EXCEPT ![c].pc = "truncate"]
       ELSE /\ rec' = AfterRotate(c)
            /\ UNCHANGED <<auditArchives, auditLog, auditFileExists, swept>>
    /\ UNCHANGED <<backend, nextSequence, lastIntegrityHash, cache, dbSerial, now,
                   uuidCtr, started, appended, overlapped, appendFailed, startedEmpty>>
    /\ UNCHANGED nonAuditVars

\* rotateIfNeeded, line 317: fs.writeFile(AUDIT_LOG_FILE, "")
RotateTruncate(c) ==
    /\ backend = "file"
    /\ rec[c].pc = "truncate"
    /\ auditLog' = <<>>
    /\ auditFileExists' = TRUE
    /\ swept' = TRUE
    /\ rec' = [rec EXCEPT ![c].pc = "rotateBoot"]
    /\ UNCHANGED <<backend, auditArchives, nextSequence, lastIntegrityHash, cache,
                   dbSerial, now, uuidCtr, started, appended, overlapped, appendFailed,
                   startedEmpty>>
    /\ UNCHANGED nonAuditVars

\* where a call continues after bootstrapStateFromFile returns
AfterBootstrap(c) ==
    IF rec[c].pc = "rotateBoot"
    THEN AfterRotate(c)
    ELSE [rec EXCEPT ![c] = [IdleCall EXCEPT !.result = "ok"]]

\* bootstrapStateFromFile, lines 173-184: read the file, rehydrate the tail from the
\* entry with the greatest sequence; an empty file returns without touching the state
BootstrapRead(c) ==
    /\ backend = "file"
    /\ rec[c].pc \in {"rotateBoot", "retentionBoot"}
    /\ auditFileExists
    /\ IF auditLog = <<>>
       THEN UNCHANGED <<nextSequence, lastIntegrityHash, cache>>
       ELSE LET entries == SortBySequence(auditLog)
                last == entries[Len(entries)]
            IN  /\ nextSequence' = last.sequence + 1
                /\ lastIntegrityHash' = last.integrityHash
                /\ cache' = Reverse(SliceLast(entries, CACHE_SIZE))
    /\ rec' = AfterBootstrap(c)
    /\ UNCHANGED <<backend, auditLog, auditFileExists, auditArchives, dbSerial, now,
                   uuidCtr, started, appended, overlapped, swept, appendFailed,
                   startedEmpty>>
    /\ UNCHANGED nonAuditVars

\* bootstrapStateFromFile, lines 185-191: the read throws (no file): the ledger is
\* reset to an empty file and the tail to (1, AUDIT_ROOT)
BootstrapReset(c) ==
    /\ backend = "file"
    /\ rec[c].pc \in {"rotateBoot", "retentionBoot"}
    /\ ~auditFileExists
    /\ auditLog' = <<>>
    /\ auditFileExists' = TRUE
    /\ cache' = <<>>
    /\ nextSequence' = 1
    /\ lastIntegrityHash' = AUDIT_ROOT
    /\ swept' = TRUE
    /\ rec' = AfterBootstrap(c)
    /\ UNCHANGED <<backend, auditArchives, dbSerial, now, uuidCtr, started, appended,
                   overlapped, appendFailed, startedEmpty>>
    /\ UNCHANGED nonAuditVars

\* enforceRetention, lines 286-296: read all entries, keep those not older than the
\* cutoff; nothing to prune returns
RetentionRead(c) ==
    /\ backend = "file"
    /\ rec[c].pc = "retentionRead"
    /\ LET entries == IF auditFileExists THEN auditLog ELSE <<>>
           retained == SelectSeq(entries, LAMBDA e : e.timestamp >= rec[c].cutoff)
       IN  rec' = IF entries = <<>> \/ Len(retained) = Len(entries)
                  THEN [rec EXCEPT ![c] = [IdleCall EXCEPT !.result = "ok"]]
                  ELSE [rec EXCEPT ![c].pc = "retentionWrite",
                                   ![c].retained = SortBySequence(retained)]
    /\ UNCHANGED <<backend, auditLog, auditFileExists, auditArchives, nextSequence,
                   lastIntegrityHash, cache, dbSerial, now, uuidCtr, started, appended,
                   overlapped, swept, appendFailed, startedEmpty>>
    /\ UNCHANGED nonAuditVars

\* enforceRetention, line 298: rewrite the file with the retained entries
RetentionWrite(c) ==
    /\ backend = "file"
    /\ rec[c].pc = "retentionWrite"
    /\ auditLog' = Rewritten(rec[c].retained)
    /\ auditFileExists' = TRUE
    /\ swept' = TRUE
    /\ rec' = [rec EXCEPT ![c].pc = "retentionBoot", ![c].retained = <<>>]
    /\ UNCHANGED <<backend, auditArchives, nextSequence, lastIntegrityHash, cache,
                   dbSerial, now, uuidCtr, started, appended, overlapped, appendFailed,
                   startedEmpty>>
    /\ UNCHANGED nonAuditVars

(***************************************************************************)
(* Database-backed AuditLogService                                         *)
(***************************************************************************)
\* record(), lines 46-67: validate, read the tail, hash, start the INSERT.  The
\* sequence is assigned by the database and is not part of the digest.
SqlRecordStart(c, input) ==
    /\ backend = "sql"
    /\ FreeSlot(c)
    /\ validateInput(input)
    /\ LET timestamp == IF input.timestamp = <<>> THEN now ELSE input.timestamp[1]
           channel == IF input.channel = Undefined THEN "system" ELSE input.channel
           basePayload == PayloadOf(input, timestamp)
           prevHash == lastIntegrityHash
           entry ==
               basePayload @@
               [id |-> IF input.id = Undefined THEN "aud-" \o ToString(uuidCtr) ELSE input.id,
                sequence |-> 0, channel |-> channel, prevHash |-> prevHash,
                integrityHash |-> computeIntegrityHashSql(basePayload, prevHash)]
       IN  rec' = [rec EXCEPT ![c] = [IdleCall EXCEPT !.pc = "insert", !.entry = entry]]
    /\ uuidCtr' = uuidCtr + 1
    /\ started' = started + 1
    /\ overlapped' = (overlapped \/ \E d \in Calls \ {c} : rec[d].pc # "idle")
    /\ UNCHANGED <<backend, auditLog, auditFileExists, auditArchives, nextSequence,
                   lastIntegrityHash, cache, dbSerial, now, appended, swept,
                   appendFailed, startedEmpty>>
    /\ UNCHANGED nonAuditVars

\* the row the INSERT of lines 69-120 stores, as mapRow reads it back: the statement
\* has no details column and stores JSON.stringify(metadata ?? {})
SqlRow(entry, sequence) ==
    [entry EXCEPT !.sequence = sequence,
                  !.details = Undefined,
                  !.metadata = IF entry.metadata = Undefined THEN "{}" ELSE entry.metadata]

\* the INSERT commits: the database assigns the next BIGSERIAL value
SqlInsert(c) ==
    /\ backend = "sql"
    /\ rec[c].pc = "insert"
    /\ auditLog' = Append(auditLog, SqlRow(rec[c].entry, dbSerial))
    /\ appended' = Append(appended, SqlRow(rec[c].entry, dbSerial))
    /\ dbSerial' = dbSerial + 1
    /\ rec' = [rec EXCEPT ![c].pc = "inserted", ![c].entry.sequence = dbSerial]
    /\ UNCHANGED <<backend, auditFileExists, auditArchives, nextSequence,
                   lastIntegrityHash, cache, now, uuidCtr, started, overlapped, swept,
                   appendFailed, startedEmpty>>
    /\ UNCHANGED nonAuditVars

\* the INSERT fails: record() rejects.  A failed INSERT may or may not have drawn a
\* value from the sequence.
SqlInsertFail(c) ==
    /\ backend = "sql"
    /\ rec[c].pc = "insert"
    /\ \E drawn \in {0, 1} : dbSerial' = dbSerial + drawn
    /\ rec' = [rec EXCEPT ![c] = [IdleCall EXCEPT !.result = "error"]]
    /\ appendFailed' = TRUE
    /\ UNCHANGED <<backend, auditLog, auditFileExists, auditArchives, nextSequence,
                   lastIntegrityHash, cache, now, uuidCtr, started, appended,
                   overlapped, swept, startedEmpty>>
    /\ UNCHANGED nonAuditVars

\* record(), lines 122-138: build the returned entry and advance the tail
SqlResume(c) ==
    /\ backend = "sql"
    /\ rec[c].pc = "inserted"
    /\ lastIntegrityHash' = rec[c].entry.integrityHash
    /\ rec' = [rec EXCEPT ![c] = [IdleCall EXCEPT !.result = "ok"]]
    /\ UNCHANGED <<backend, auditLog, auditFileExists, auditArchives, nextSequence,
                   cache, dbSerial, now, uuidCtr, started, appended, overlapped, swept,
                   appendFailed, startedEmpty>>
    /\ UNCHANGED nonAuditVars

(***************************************************************************)
(* Clock                                                                   *)
(***************************************************************************)
\* the clock advances by a retention window and a second
TickStep == AUDIT_RETENTION_DAYS * DAY_IN_S + 1

AuditTick ==
    /\ now < TickStep
    /\ now' = now + TickStep
    /\ UNCHANGED <<backend, auditLog, auditFileExists, auditArchives, nextSequence,
                   lastIntegrityHash, cache, dbSerial, rec, uuidCtr, started, appended,
                   overlapped, swept, appendFailed, startedEmpty>>
    /\ UNCHANGED nonAuditVars

(***************************************************************************)
(* Audit specification: the state after initialize(), then record() calls  *)
(***************************************************************************)
\* initialize() on an empty or missing log leaves (1, AUDIT_ROOT); on the kept log
\* bootstrapStateFromFile rehydrates the tail.  hydrateState does the same for the
\* empty audit_log table.
AuditInit ==
    /\ backend \in {"file", "sql"}
    /\ auditLog \in IF backend = "file" THEN {<<>>, <<SeedEntry>>} ELSE {<<>>}
    /\ auditFileExists = (backend = "file")
    /\ auditArchives = <<>>
    /\ nextSequence = IF auditLog = <<>> THEN 1 ELSE auditLog[Len(auditLog)].sequence + 1
    /\ lastIntegrityHash =
           IF auditLog = <<>> THEN AUDIT_ROOT ELSE auditLog[Len(auditLog)].integrityHash
    /\ cache = Reverse(auditLog)
    /\ dbSerial = 1
    /\ rec = [c \in Calls |-> IdleCall]
    /\ now = 0
    /\ uuidCtr = 1
    /\ started = 0
    /\ appended = <<>>
    /\ overlapped = FALSE
    /\ swept = FALSE
    /\ appendFailed = FALSE
    /\ startedEmpty = (auditLog = <<>>)

AuditNext ==
    \/ \E c \in Calls, input \in RecordInputs : FileRecordStart(c, input)
    \/ \E c \in Calls, input \in RecordInputs : RecordReject(c, input)
    \/ \E c \in Calls : FileAppendWrite(c)
    \/ \E c \in Calls : FileAppendFail(c)
    \/ \E c \in Calls : FileAppendResume(c)
    \/ \E c \in Calls : RotateStat(c)
    \/ \E c \in Calls : RotateRename(c)
    \/ \E c \in Calls : RotateTruncate(c)
    \/ \E c \in Calls : BootstrapRead(c)
    \/ \E c \in Calls : BootstrapReset(c)
    \/ \E c \in Calls : RetentionRead(c)
    \/ \E c \in Calls : RetentionWrite(c)
    \/ \E c \in Calls, input \in RecordInputs : SqlRecordStart(c, input)
    \/ \E c \in Calls : SqlInsert(c)
    \/ \E c \in Calls : SqlInsertFail(c)
    \/ \E c \in Calls : SqlResume(c)
    \/ AuditTick

(***************************************************************************)
(* Tiered mempool (class Mempool)                                          *)
(***************************************************************************)
\* a determineTier whose thresholds are exclusive
determineTierStrict(priorityScore, hintedTier) ==
    IF hintedTier = 1 \/ priorityScore > TIER1_THRESHOLD THEN 1
    ELSE IF hintedTier = 2 \/ priorityScore > TIER2_THRESHOLD THEN 2
    ELSE 3

\* a determineTier that looks at the priority only
determineTierNoHint(priorityScore, hintedTier) ==
    IF priorityScore >= TIER1_THRESHOLD THEN 1
    ELSE IF priorityScore >= TIER2_THRESHOLD THEN 2
    ELSE 3

\* Mempool.determineTier
determineTier(priorityScore, hintedTier) ==
    IF hintedTier = 1 \/ priorityScore >= TIER1_THRESHOLD THEN 1
    ELSE IF hintedTier = 2 \/ priorityScore >= TIER2_THRESHOLD THEN 2
    ELSE 3

TierKey(tier) == IF tier = 1 THEN "tier1" ELSE IF tier = 2 THEN "tier2" ELSE "tier3"


\* Mempool.getQueue
getQueue(tier) == snapshot[TierKey(tier)]

\* Mempool.getCapacity
getCapacity(tier) == MEMPOOL_CAPACITY[TierKey(tier)]

\* a sort that leaves the queue as it is
KeepOrder(queue) == queue

\* queue.sort((a, b) => b.priority - a.priority): Array.prototype.sort is stable
RECURSIVE InsertByPriority(_, _)
InsertByPriority(sorted, e) ==
    IF sorted = <<>> THEN <<e>>
    ELSE IF sorted[Len(sorted)].priority >= e.priority THEN Append(sorted, e)
    ELSE Append(InsertByPriority(SubSeq(sorted, 1, Len(sorted) - 1), e), sorted[Len(sorted)])

RECURSIVE StableSortDesc(_)
StableSortDesc(queue) ==
    IF queue = <<>> THEN <<>>
    ELSE InsertByPriority(StableSortDesc(SubSeq(queue, 1, Len(queue) - 1)), queue[Len(queue)])

SortByPriority(queue) == StableSortDesc(queue)

\* an eviction that takes the head of the queue
PopFirst(queue) == [evicted |-> <<queue[1]>>, queue |-> SubSeq(queue, 2, Len(queue))]

\* queue.pop(): the last element leaves the queue
Pop(queue) == [evicted |-> <<queue[Len(queue)]>>, queue |-> SubSeq(queue, 1, Len(queue) - 1)]

NoAdd == [tier |-> 0, failed |-> 0]

\* what addTransaction does to the queue of `tier` before it awaits persist():
\* push, sort, pop when over capacity
Admit(queue, entry, capacity) ==
    LET sorted == SortByPriority(Append(queue, entry))
    IN  IF Len(sorted) > capacity THEN Pop(sorted) ELSE [evicted |-> <<>>, queue |-> sorted]

\* addTransaction, lines 100-123, up to the call of persist(); `owner` is the request
\* that awaits the write (0: a direct caller)
AddTransaction(tx, priority, owner) ==
    /\ addCtr < MaxAdds
    /\ Len(pending) < MaxPending
    /\ LET tier == determineTier(priority, tx.tier)
           entry == [id |-> tx.id, tx |-> tx, tier |-> tier, priority |-> priority,
                     addedAt |-> addCtr + 1]
           admitted == Admit(getQueue(tier), entry, getCapacity(tier))
           after == [snapshot EXCEPT ![TierKey(tier)] = admitted.queue]
       IN  /\ snapshot' = after
           /\ pending' = Append(pending, [content |-> after, owner |-> owner,
                                           added |-> entry.addedAt])
           /\ lastAdd' = [tier |-> tier, failed |-> 0, entry |-> entry,
                          evicted |-> admitted.evicted,
                          before |-> getQueue(tier), after |-> admitted.queue]
    /\ addCtr' = addCtr + 1
    /\ UNCHANGED mempoolFile

\* queue.findIndex + splice(index, 1): the first entry with this id leaves the queue
RECURSIVE RemoveFirstMatch(_, _)
RemoveFirstMatch(queue, txId) ==
    IF queue = <<>> THEN <<>>
    ELSE IF queue[1].id = txId THEN SubSeq(queue, 2, Len(queue))
    ELSE <<queue[1]>> \o RemoveFirstMatch(SubSeq(queue, 2, Len(queue)), txId)

\* Mempool.removeTransaction applied to a snapshot: every tier is visited
removeTransaction(snap, txId) ==
    [key \in DOMAIN snap |-> RemoveFirstMatch(snap[key], txId)]

\* txIds.forEach((id) => this.removeTransaction(id))
RECURSIVE RemoveAll(_, _)
RemoveAll(snap, txIds) ==
    IF txIds = <<>> THEN snap
    ELSE RemoveAll(removeTransaction(snap, txIds[1]), SubSeq(txIds, 2, Len(txIds)))

RemoveAt(s, i) == SubSeq(s, 1, i - 1) \o SubSeq(s, i + 1, Len(s))

\* inputs of the direct mempool calls
TxIds == {"t1", "t2"}
PoolPriorities == {500000, 900000}
PoolHints == {NoTier, 1, 2}
FlushInputs == {<<"t1">>, <<"t2", "t1">>, <<"t1", "t1">>}

MempoolAdd(id, priority, hint) ==
    /\ AddTransaction([id |-> id, tier |-> hint], priority, 0)
    /\ UNCHANGED nonPoolVars

MempoolRemove(txId) ==
    /\ \E key \in DOMAIN snapshot : \E i \in 1..Len(snapshot[key]) : snapshot[key][i].id = txId
    /\ snapshot' = removeTransaction(snapshot, txId)
    /\ lastAdd' = NoAdd
    /\ UNCHANGED <<mempoolFile, pending, addCtr>>
    /\ UNCHANGED nonPoolVars

\* flushTransactions, lines 144-147, up to the call of persist()
MempoolFlush(txIds) ==
    /\ Len(pending) < MaxPending
    /\ snapshot' = RemoveAll(snapshot, txIds)
    /\ pending' = Append(pending, [content |-> snapshot', owner |-> 0, added |-> 0])
    /\ lastAdd' = NoAdd
    /\ UNCHANGED <<mempoolFile, addCtr>>
    /\ UNCHANGED nonPoolVars

\* fs.writeFile of persist() completes: the file holds the text that was serialized
\* when persist() was called
PersistWritten(i) ==
    /\ i \in 1..Len(pending)
    /\ mempoolFile' = pending[i].content
    /\ pending' = RemoveAt(pending, i)
    /\ lastAdd' = NoAdd
    /\ UNCHANGED <<snapshot, addCtr>>

\* fs.writeFile of persist() throws: the caller's promise rejects; nothing is
\* caught between the writeFile and the caller, so the queues stay as they are
PersistThrown(i) ==
    /\ i \in 1..Len(pending)
    /\ pending' = RemoveAt(pending, i)
    /\ lastAdd' = [NoAdd EXCEPT !.failed = pending[i].added]
    /\ UNCHANGED <<snapshot, mempoolFile, addCtr>>

PersistWrite(i) ==
    /\ PersistWritten(i)
    /\ pending[i].owner = 0
    /\ UNCHANGED nonPoolVars

PersistFail(i) ==
    /\ PersistThrown(i)
    /\ pending[i].owner = 0
    /\ UNCHANGED nonPoolVars

EmptySnapshot == [tier1 |-> <<>>, tier2 |-> <<>>, tier3 |-> <<>>]

\* the state after initialize() found no snapshot file and persisted the empty one
PoolInit ==
    /\ snapshot = EmptySnapshot
    /\ mempoolFile = EmptySnapshot
    /\ pending = <<>>
    /\ addCtr = 0
    /\ lastAdd = NoAdd

PendingSlots == 1..MaxPending

MempoolNext ==
    \/ \E id \in TxIds, priority \in PoolPriorities, hint \in PoolHints :
           MempoolAdd(id, priority, hint)
    \/ \E txId \in TxIds : MempoolRemove(txId)
    \/ \E txIds \in FlushInputs : MempoolFlush(txIds)
    \/ \E i \in PendingSlots : PersistWrite(i)
    \/ \E i \in PendingSlots : PersistFail(i)

\* one addTransaction on the empty mempool, for every priority and every hint
TierPriorities ==
    {k * 50000 : k \in 0..20} \cup {599999, 600001, 849999, 850001}
TierHints == {NoTier, 1, 2, 3, 4}

TierAdd(priority, hint) ==
    /\ addCtr = 0
    /\ AddTransaction([id |-> "t1", tier |-> hint], priority, 0)
    /\ UNCHANGED nonPoolVars

TierNext ==
    \/ \E priority \in TierPriorities, hint \in TierHints : TierAdd(priority, hint)
    \/ \E i \in PendingSlots : PersistWrite(i)
    \/ \E i \in PendingSlots : PersistFail(i)

(***************************************************************************)
(* ContextEngine.  Scores are counted in ten-thousandths, priorities in    *)
(* millionths; a text is the sequence of its lower-cased words and a       *)
(* pattern the set of its alternatives, each a sequence of words.          *)
(***************************************************************************)
CRITICALITY_KEYWORDS ==
    << [pattern |-> {<<"cardiac", "arrest">>}, score |-> 9500],
       [pattern |-> {<<"stroke">>}, score |-> 9300],
       [pattern |-> {<<"sepsis">>, <<"trauma">>}, score |-> 9000],
       [pattern |-> {<<"prescription">>}, score |-> 6500],
       [pattern |-> {<<"lab">>, <<"diagnostic">>}, score |-> 5000],
       [pattern |-> {<<"routine">>, <<"checkup">>}, score |-> 3500] >>

SENSITIVITY_FLAGS ==
    << [pattern |-> {<<"stat">>}, score |-> 9500],
       [pattern |-> {<<"urgent">>}, score |-> 8000],
       [pattern |-> {<<"routine">>}, score |-> 4000] >>

COMPLIANCE_FLAGS ==
    << [pattern |-> {<<"controlled", "substance">>}, score |-> 5000],
       [pattern |-> {<<"prescription">>}, score |-> 3000] >>

\* pattern.test(text)
Test(pattern, text) ==
    \E alt \in pattern : \E i \in 1..Len(text) :
        i + Len(alt) - 1 <= Len(text) /\ SubSeq(text, i, i + Len(alt) - 1) = alt

\* a scan in which a later matching entry overrides an earlier one
RECURSIVE LastMatch(_, _, _)
LastMatch(table, text, default) ==
    IF table = <<>> THEN default
    ELSE IF Test(table[Len(table)].pattern, text) THEN table[Len(table)].score
    ELSE LastMatch(SubSeq(table, 1, Len(table) - 1), text, default)

\* for (const keyword of table) if (keyword.pattern.test(text)) return keyword.score
RECURSIVE FirstMatch(_, _, _)
FirstMatch(table, text, default) ==
    IF table = <<>> THEN default
    ELSE IF Test(table[1].pattern, text) THEN table[1].score
    ELSE FirstMatch(SubSeq(table, 2, Len(table)), text, default)

\* a clamp that lets every value through
noClamp(value, low, high) == value

clamp(value, low, high) == IF value < low THEN low ELSE IF value > high THEN high ELSE value

\* the values of a payload object, in insertion order; an absent value is the
\* empty text and adds no word
RECURSIVE JoinValues(_)
JoinValues(values) ==
    IF values = <<>> THEN <<>>
    ELSE values[1] \o JoinValues(SubSeq(values, 2, Len(values)))

\* ContextEngine.extractPayloadText: the type, then every value of the payload
extractPayloadText(tx) == tx.type \o JoinValues(tx.payload)

calculateCriticality(type, payloadText) == FirstMatch(CRITICALITY_KEYWORDS, type \o payloadText, 4000)

calculateSensitivity(payloadText) == FirstMatch(SENSITIVITY_FLAGS, payloadText, 5000)

calculateCompliance(payloadText) == FirstMatch(COMPLIANCE_FLAGS, payloadText, 1000)

\* Mempool.getQueueStats with its default arguments (no validator figures)
getQueueStats ==
    [size |-> Len(snapshot.tier1) + Len(snapshot.tier2) + Len(snapshot.tier3),
     capacity |-> MEMPOOL_CAPACITY.tier1 + MEMPOOL_CAPACITY.tier2 + MEMPOOL_CAPACITY.tier3,
     validatorsOnline |-> 0, validatorsTotal |-> 0]

\* ContextEngine.calculateResources on the statistics the provider returns
calculateResources(stats) ==
    LET utilization == IF stats.capacity > 0 THEN (10000 * stats.size) \div stats.capacity ELSE 0
        validatorAvailability ==
            IF stats.validatorsTotal > 0
            THEN (10000 * stats.validatorsOnline) \div stats.validatorsTotal
            ELSE 10000
    IN  clamp(2000 + (6 * validatorAvailability) \div 10 - (5 * utilization) \div 10, 0, 10000)

\* ContextEngine.calculateResources, lines 108-112: 0.5 when resolveStats() returns
\* null (resolved is <<>>), the score of the statistics otherwise
resourcesOf(resolved) ==
    IF resolved = <<>> THEN 5000 ELSE calculateResources(resolved[1])

\* ContextEngine.calculatePriority, lines 39-67, on what the provider resolves to
breakdownOf(tx, resolved) ==
    LET payloadText == extractPayloadText(tx)
        criticality == calculateCriticality(tx.type, payloadText)
        sensitivity == calculateSensitivity(payloadText)
        resources == resourcesOf(resolved)
        compliance == calculateCompliance(payloadText)
    IN  [criticality |-> criticality, sensitivity |-> sensitivity, resources |-> resources,
         compliance |-> compliance,
         priority |-> clamp(45 * criticality + 35 * sensitivity + 10 * resources
                            + 10 * compliance, 0, 1000000)]

\* ContextEngine.calculatePriority with the provider the server passes,
\* () => mempool.getQueueStats()
calculatePriority(tx) == breakdownOf(tx, <<getQueueStats>>)

\* the transactions scored: a type and two payload values, each a text or absent
ScoreTypes ==
    {<<"emergency", "record">>, <<"stat", "order">>, <<"routine", "lab">>,
     <<"stroke", "prescription">>}

ScoreValues ==
    {<<>>, <<"cardiac", "arrest", "stat">>, <<"routine", "checkup">>,
     <<"controlled", "substance", "prescription">>, <<"urgent", "trauma">>}

ScoreTxs == [type : ScoreTypes, payload : ScoreValues \X ScoreValues]

\* what the statistics provider resolves to: null, or totals of the three tiers with
\* the validator figures
ScoreStats ==
    {<<>>} \cup
    {<<st>> : st \in [size : {0, MaxStat}, capacity : {0, MaxStat},
                       validatorsOnline : 0..MaxStat, validatorsTotal : {0, 1}]}

NoBreakdown == [priority |-> -1]

NoScore == [tx |-> [type |-> <<>>, payload |-> <<>>], stats |-> <<>>, asked |-> FALSE,
            breakdown |-> NoBreakdown]

\* a calculatePriority call returns its breakdown
Score ==
    /\ scored.asked
    /\ scored.breakdown = NoBreakdown
    /\ scored' = [scored EXCEPT !.breakdown = breakdownOf(scored.tx, scored.stats)]
    /\ UNCHANGED <<auditVars, poolVars, httpVars, walletVars, qres, trav>>

ScoreNext == Score

(***************************************************************************)
(* POST /transactions                                                      *)
(***************************************************************************)
\* toTierNumber on a string: the label is held lower-cased
toTierNumber(value) ==
    IF value \in {"tier-1", "critical"} THEN 1
    ELSE IF value \in {"tier-2", "priority"} THEN 2
    ELSE 3

\* validateTransactionPayload: does not throw
validateTransactionPayload(body) ==
    /\ body.type.text \notin {Undefined, ""}
    /\ body.patientId \notin {Undefined, ""}
    /\ body.provider \notin {Undefined, ""}
    /\ body.priority \notin {Undefined, ""}

\* request bodies; a type is held as the string sent and as its lower-cased words
PostTypes ==
    {[text |-> "Cardiac arrest STAT prescription",
      words |-> <<"cardiac", "arrest", "stat", "prescription">>],
     [text |-> "Stroke urgent", words |-> <<"stroke", "urgent">>],
     [text |-> "Routine checkup", words |-> <<"routine", "checkup">>]}
PostLabels == {"tier-1", "tier-2", "tier-3", Undefined}
PostBodies ==
    [type : PostTypes, patientId : {"p-1"}, provider : {"clinic"}, priority : PostLabels,
     actorId : {Undefined, "0xab"}]

NoBody == [type |-> [text |-> Undefined, words |-> <<>>], patientId |-> Undefined,
           provider |-> Undefined, priority |-> Undefined, actorId |-> Undefined]

NewRequest == [pc |-> "new", body |-> NoBody, id |-> Undefined, tier |-> 0, priority |-> 0,
               status |-> 0, call |-> 0]

\* the r-th request is the next one to arrive
NextRequest(r) == req[r].pc = "new" /\ \A q \in 1..(r - 1) : req[q].pc # "new"

\* handler lines 113-138, up to the snapshot write of addTransaction: the body is
\* validated, the record is built, the priority is computed and the entry is queued
PostAdmit(r, body) ==
    /\ NextRequest(r)
    /\ validateTransactionPayload(body)
    /\ LET resolvedTier == toTierNumber(body.priority)
           baseRecord ==
               [id |-> "tx-" \o ToString(addCtr + 1), type |-> body.type.words,
                tier |-> resolvedTier,
                payload |-> << <<body.patientId>>, <<body.provider>>, <<body.provider>>,
                               <<body.priority>>, <<"pending">> >>]
           breakdown == calculatePriority(baseRecord)
       IN  /\ AddTransaction(baseRecord, breakdown.priority, r)
           /\ req' = [req EXCEPT ![r] = [NewRequest EXCEPT !.pc = "persist", !.body = body,
                                                           !.id = baseRecord.id,
                                                           !.tier = lastAdd'.tier,
                                                           !.priority = breakdown.priority]]
    /\ UNCHANGED <<auditVars, walletVars, queryVars>>

\* handler line 114: validateTransactionPayload throws HttpError(400)
PostReject(r, body) ==
    /\ NextRequest(r)
    /\ ~validateTransactionPayload(body)
    /\ req' = [req EXCEPT ![r] = [NewRequest EXCEPT !.pc = "done", !.body = body,
                                                    !.status = 400]]
    /\ UNCHANGED <<auditVars, poolVars, walletVars, queryVars>>

\* the audit input of handler lines 141-153
SubmitInput(r) ==
    [id |-> Undefined, timestamp |-> <<>>, action |-> "Transaction.Submit",
     actorId |-> IF req[r].body.actorId = Undefined THEN "10.0.0.9" ELSE req[r].body.actorId,
     actorType |-> "api", resource |-> "transaction:" \o req[r].id, outcome |-> "success",
     patientId |-> Undefined, ipAddress |-> Undefined, blockHash |-> Undefined,
     details |-> req[r].body.type.text,
     metadata |-> "{\"tier\":" \o ToString(req[r].tier) \o ",\"priority\":"
                  \o ToString(req[r].priority) \o ",\"source\":\"rest-api\"}",
     tags |-> <<>>, channel |-> Undefined]

\* the snapshot write of the request's addTransaction completes and the handler goes
\* on to auditLog.record, which runs up to its durable append
PostPersisted(r, i, c) ==
    /\ req[r].pc = "persist"
    /\ PersistWritten(i)
    /\ pending[i].owner = r
    /\ FileRecordBegin(c, SubmitInput(r))
    /\ req' = [req EXCEPT ![r].pc = "audit", ![r].call = c]
    /\ UNCHANGED <<walletVars, queryVars>>

\* the snapshot write throws: addTransaction rejects and the request ends with 500
PostPersistFailed(r, i) ==
    /\ req[r].pc = "persist"
    /\ PersistThrown(i)
    /\ pending[i].owner = r
    /\ req' = [req EXCEPT ![r].pc = "done", ![r].status = 500]
    /\ UNCHANGED <<auditVars, walletVars, queryVars>>

\* a handler that answers 201 whatever record() did
PostRespondBlind(r) ==
    /\ req[r].pc = "audit"
    /\ rec[req[r].call].pc = "idle"
    /\ req' = [req EXCEPT ![r].pc = "done", ![r].status = 201]
    /\ UNCHANGED <<auditVars, poolVars, walletVars, queryVars>>

\* record() has returned or thrown: 201, or 500 through the error middleware
PostRespond(r) ==
    /\ req[r].pc = "audit"
    /\ rec[req[r].call].pc = "idle"
    /\ req' = [req EXCEPT ![r].pc = "done",
                          ![r].status = IF rec[req[r].call].result = "ok" THEN 201 ELSE 500]
    /\ UNCHANGED <<auditVars, poolVars, walletVars, queryVars>>

HttpInit == req = [r \in Requests |-> NewRequest]

\* the log starts empty, so sequence 50 and with it enforceRetention is out of reach
HttpNext ==
    \/ \E r \in Requests, body \in PostBodies : PostAdmit(r, body)
    \/ \E r \in Requests, body \in PostBodies : PostReject(r, body)
    \/ \E r \in Requests, i \in PendingSlots, c \in Calls : PostPersisted(r, i, c)
    \/ \E r \in Requests, i \in PendingSlots : PostPersistFailed(r, i)
    \/ \E r \in Requests : PostRespond(r)
    \/ \E c \in Calls : FileAppendWrite(c)
    \/ \E c \in Calls : FileAppendFail(c)
    \/ \E c \in Calls : FileAppendResume(c)
    \/ \E c \in Calls : RotateStat(c)
    \/ \E c \in Calls : RotateRename(c)
    \/ \E c \in Calls : RotateTruncate(c)
    \/ \E c \in Calls : BootstrapRead(c)
    \/ \E c \in Calls : BootstrapReset(c)

(***************************************************************************)
(* WalletRegistry and WalletAuthService                                    *)
(***************************************************************************)
\* a registry that files every address as it was written
keepAddress(address) == address

\* address.trim().toLowerCase(), over the addresses of the model
normalize(address) == IF address \in {"0xAB", " 0xab "} THEN "0xab" ELSE address

\* the keys under which the registry and the nonce store can file a wallet
WalletKeys == {"0xab", "ed-1", "0xAB", " 0xab "}

NoWallet == [id |-> Undefined, address |-> Undefined, addressNormalized |-> Undefined,
             type |-> Undefined, publicKey |-> Undefined, status |-> Undefined,
             lastSeenAt |-> -1]

NoNonce == [address |-> Undefined, addressNormalized |-> Undefined, nonce |-> Undefined,
            message |-> <<>>, walletType |-> Undefined, issuedAt |-> -1, expiresAt |-> -1]

NoSignature == [signer |-> Undefined, message |-> <<>>]

IdleWalletCall ==
    [pc |-> "new", op |-> "none", address |-> Undefined, type |-> Undefined,
     signature |-> NoSignature, wallet |-> NoWallet, record |-> NoNonce,
     verified |-> FALSE, result |-> "none", late |-> FALSE, at |-> -1]

\* the k-th wallet call of a behaviour runs in slot k
FreeWalletSlot(k) == k = wstarted + 1

Returned(k, result) == [wcall EXCEPT ![k].pc = "done", ![k].result = result]

\* WalletRegistry.getWallet
getWallet(address) == wallets[normalize(address)]

\* WalletRegistry.register, lines 59-72: the profile of a new wallet
NewProfile(k, address, type, publicKey) ==
    [id |-> "wallet-" \o ToString(k), address |-> address,
     addressNormalized |-> normalize(address), type |-> type, publicKey |-> publicKey,
     status |-> "active", lastSeenAt |-> -1]

\* WalletAuthService.buildChallengeMessage
\* a challenge message that does not carry the nonce
buildChallengeMessageFixed(address, nonce) == <<address, "CAMTC", 0>>

buildChallengeMessage(address, nonce) == <<address, nonce, now>>

\* issueNonce, lines 242-258: the record stored for the wallet
NewNonceRecord(k, wallet) ==
    LET nonce == "CAMTC-" \o ToString(k)
    IN  [address |-> wallet.address, addressNormalized |-> wallet.addressNormalized,
         nonce |-> nonce, message |-> buildChallengeMessage(wallet.address, nonce),
         walletType |-> wallet.type, issuedAt |-> now,
         expiresAt |-> now + WALLET_NONCE_TTL_SECONDS]

IssueInputs ==
    {[address |-> "0xAB", walletType |-> Undefined, customPublicKey |-> Undefined],
     [address |-> " 0xab ", walletType |-> "metamask", customPublicKey |-> Undefined],
     [address |-> "ed-1", walletType |-> "custom", customPublicKey |-> "pk-1"],
     [address |-> "ed-1", walletType |-> Undefined, customPublicKey |-> Undefined],
     [address |-> "ed-1", walletType |-> "custom", customPublicKey |-> Undefined]}

\* issueNonce, lines 210-240, for an address the registry does not know: a MetaMask
\* wallet is registered on the spot, a custom one needs its public key; register()
\* puts the profile in the registry and awaits the registry write
IssueRegister(k, in) ==
    /\ FreeWalletSlot(k)
    /\ getWallet(in.address) = NoWallet
    /\ LET resolvedType == IF in.walletType # Undefined THEN in.walletType ELSE "metamask"
           profile == NewProfile(k, in.address, resolvedType, in.customPublicKey)
           call == [IdleWalletCall EXCEPT !.op = "issue", !.address = in.address,
                                          !.type = resolvedType]
       IN  IF resolvedType = "custom" /\ in.customPublicKey = Undefined
           THEN /\ wcall' = [wcall EXCEPT ![k] = [call EXCEPT !.pc = "done",
                                                              !.result = "MissingPublicKey"]]
                /\ UNCHANGED wallets
           ELSE /\ wallets' = [wallets EXCEPT ![normalize(in.address)] = profile]
                /\ wcall' = [wcall EXCEPT ![k] = [call EXCEPT !.pc = "regPersist",
                                                              !.wallet = profile]]
    /\ wstarted' = wstarted + 1
    /\ UNCHANGED <<registryFile, nonceStore, nonceFile, phase, now>>
    /\ UNCHANGED nonWalletVars

\* a type check that lets every declared family pass
typeAlwaysMatches(wallet, resolvedType) == FALSE

\* wallet.type !== resolvedType
typeMismatch(wallet, resolvedType) == wallet.type # resolvedType

\* issueNonce, lines 238-259, from the type check to the call of persistNonceStore
StoreNonce(k, call, address, wallet) ==
    IF typeMismatch(wallet, call.type)
    THEN /\ wcall' = [wcall EXCEPT ![k] = [call EXCEPT !.pc = "done", !.wallet = wallet,
                                                       !.result = "TypeMismatch"]]
         /\ UNCHANGED <<nonceStore, phase>>
    ELSE LET record == NewNonceRecord(k, wallet)
         IN  /\ nonceStore' = [nonceStore EXCEPT ![normalize(address)] = record]
             /\ phase' = [phase EXCEPT ![normalize(address)] = "active"]
             /\ wcall' = [wcall EXCEPT ![k] = [call EXCEPT !.pc = "noncePersist",
                                                           !.wallet = wallet,
                                                           !.record = record]]

\* issueNonce for a registered wallet: no await before the nonce is stored
IssueKnown(k, in) ==
    /\ FreeWalletSlot(k)
    /\ getWallet(in.address) # NoWallet
    /\ LET wallet == getWallet(in.address)
           resolvedType == IF in.walletType # Undefined THEN in.walletType ELSE wallet.type
           call == [IdleWalletCall EXCEPT !.op = "issue", !.address = in.address,
                                          !.type = resolvedType]
       IN  StoreNonce(k, call, in.address, wallet)
    /\ wstarted' = wstarted + 1
    /\ UNCHANGED <<wallets, registryFile, nonceFile, now>>
    /\ UNCHANGED nonWalletVars

\* the registry write of register() completes and issueNonce goes on to store the nonce
IssueRegistered(k) ==
    /\ wcall[k].pc = "regPersist"
    /\ registryFile' = wallets
    /\ StoreNonce(k, wcall[k], wcall[k].address, wcall[k].wallet)
    /\ UNCHANGED <<wallets, nonceFile, wstarted, now>>
    /\ UNCHANGED nonWalletVars

\* the registry write throws: issueNonce rejects, the profile stays in memory
IssueRegisterFail(k) ==
    /\ wcall[k].pc = "regPersist"
    /\ wcall' = Returned(k, "error")
    /\ UNCHANGED <<wallets, registryFile, nonceStore, nonceFile, wstarted, phase, now>>
    /\ UNCHANGED nonWalletVars

\* a signature check that accepts whatever it is given
acceptAnySignature(wallet, message, signature) == TRUE

\* a comparison of the recovered address with the address as the wallet wrote it
verifyMetamaskSignatureRaw(wallet, message, signature) ==
    LET recovered == IF signature.message = message THEN signature.signer ELSE "0x??"
    IN  recovered = wallet.address

\* verifyMetamaskSignature: the address recovered from the signature is the signer's
\* when the signature is over this message, and some unrelated address otherwise
verifyMetamaskSignature(wallet, message, signature) ==
    LET recovered == IF signature.message = message THEN signature.signer ELSE "0x??"
    IN  recovered = wallet.addressNormalized

\* verifyCustomSignature with the wallet's public key
verifyCustomSignature(wallet, message, signature) ==
    signature.message = message /\ signature.signer = wallet.publicKey

\* an expiry check that lets every nonce pass
nonceNeverExpired(nonceRecord) == FALSE

\* Date.now() > Date.parse(nonceRecord.expiresAt)
nonceExpired(nonceRecord) == now > nonceRecord.expiresAt

\* a verification that leaves the nonce where it is
KeepNonce(store, normalized) == store

\* delete this.nonceStore[normalized]
DeleteNonce(store, normalized) == [store EXCEPT ![normalized] = NoNonce]

\* the signatures a caller can present: by the wallet's owner or by somebody else,
\* over any challenge message issued so far
OwnerKey(normalized) == IF normalized = "ed-1" THEN "pk-1" ELSE normalized

IssuedMessages ==
    {wcall[j].record.message : j \in {i \in WalletCalls : wcall[i].op = "issue"}} \ {<<>>}

Signatures(address) ==
    [signer : {OwnerKey(normalize(address)), "0xbad"}, message : IssuedMessages]

VerifyAddresses == {"0xAB", "ed-1"}

\* verifySignature, lines 271-299: wallet lookup, nonce lookup, expiry, signature
\* check.  A custom wallet is checked without suspension; for a MetaMask wallet the
\* call awaits verifyMetamaskSignature and resumes in VerifyResume.
VerifyStart(k, address, signature) ==
    /\ FreeWalletSlot(k)
    /\ LET wallet == getWallet(address)
           normalized == wallet.addressNormalized
           nonceRecord == nonceStore[normalized]
           call == [IdleWalletCall EXCEPT !.op = "verify", !.address = address,
                                          !.signature = signature, !.wallet = wallet,
                                          !.at = now,
                                          !.late = (wallet # NoWallet
                                                    /\ phase[normalized] = "consumed")]
       IN  IF wallet = NoWallet
           THEN /\ wcall' = [wcall EXCEPT ![k] = [call EXCEPT !.pc = "done",
                                                              !.result = "NotRegistered"]]
                /\ UNCHANGED <<nonceStore, phase>>
           ELSE IF nonceRecord = NoNonce
           THEN /\ wcall' = [wcall EXCEPT ![k] = [call EXCEPT !.pc = "done",
                                                              !.result = "NoActiveNonce"]]
                /\ UNCHANGED <<nonceStore, phase>>
           ELSE IF nonceExpired(nonceRecord)
           THEN /\ nonceStore' = DeleteNonce(nonceStore, normalized)
                /\ phase' = [phase EXCEPT ![normalized] = "none"]
                /\ wcall' = [wcall EXCEPT ![k] = [call EXCEPT !.pc = "expirePersist",
                                                              !.record = nonceRecord]]
           ELSE IF wallet.type = "metamask"
           THEN /\ wcall' = [wcall EXCEPT ![k] =
                                [call EXCEPT !.pc = "sigCheck", !.record = nonceRecord,
                                             !.verified = verifyMetamaskSignature(
                                                 wallet, nonceRecord.message, signature)]]
                /\ UNCHANGED <<nonceStore, phase>>
           ELSE IF ~verifyCustomSignature(wallet, nonceRecord.message, signature)
           THEN /\ wcall' = [wcall EXCEPT ![k] = [call EXCEPT !.pc = "done",
                                                              !.record = nonceRecord,
                                                              !.result = "SignatureInvalid"]]
                /\ UNCHANGED <<nonceStore, phase>>
           ELSE /\ nonceStore' = DeleteNonce(nonceStore, normalized)
                /\ phase' = [phase EXCEPT ![normalized] = "deleted"]
                /\ wcall' = [wcall EXCEPT ![k] = [call EXCEPT !.pc = "consumePersist",
                                                              !.record = nonceRecord,
                                                              !.verified = TRUE]]
    /\ wstarted' = wstarted + 1
    /\ UNCHANGED <<wallets, registryFile, nonceFile, now>>
    /\ UNCHANGED nonWalletVars

\* verifySignature, lines 292-302, after `await this.verifyMetamaskSignature(...)`
VerifyResume(k) ==
    /\ wcall[k].pc = "sigCheck"
    /\ LET normalized == wcall[k].wallet.addressNormalized
       IN  IF ~wcall[k].verified
           THEN /\ wcall' = Returned(k, "SignatureInvalid")
                /\ UNCHANGED <<nonceStore, phase>>
           ELSE /\ nonceStore' = DeleteNonce(nonceStore, normalized)
                /\ phase' = [phase EXCEPT ![normalized] = "deleted"]
                /\ wcall' = [wcall EXCEPT ![k].pc = "consumePersist"]
    /\ UNCHANGED <<wallets, registryFile, nonceFile, wstarted, now>>
    /\ UNCHANGED nonWalletVars

\* the nonce file write of issueNonce or of the expiry branch completes
NoncePersisted(k) ==
    /\ wcall[k].pc \in {"noncePersist", "expirePersist"}
    /\ nonceFile' = nonceStore
    /\ wcall' = Returned(k, IF wcall[k].pc = "noncePersist" THEN "ok" ELSE "Expired")
    /\ UNCHANGED <<wallets, registryFile, nonceStore, wstarted, phase, now>>
    /\ UNCHANGED nonWalletVars

\* a nonce file write throws: the call rejects with the I/O error
NoncePersistFail(k) ==
    /\ wcall[k].pc \in {"noncePersist", "expirePersist", "consumePersist"}
    /\ wcall' = Returned(k, "error")
    /\ UNCHANGED <<wallets, registryFile, nonceStore, nonceFile, wstarted, phase, now>>
    /\ UNCHANGED nonWalletVars

\* the nonce file write of a successful verification completes; registry.touch stamps
\* lastSeenAt and awaits the registry write
VerifyConsumed(k) ==
    /\ wcall[k].pc = "consumePersist"
    /\ nonceFile' = nonceStore
    /\ LET normalized == normalize(wcall[k].wallet.address)
       IN  wallets' = [wallets EXCEPT ![normalized].lastSeenAt = now]
    /\ wcall' = [wcall EXCEPT ![k].pc = "touchPersist"]
    /\ UNCHANGED <<registryFile, nonceStore, wstarted, phase, now>>
    /\ UNCHANGED nonWalletVars

\* the registry write of touch() completes: verifySignature returns the session token
VerifyTouched(k) ==
    /\ wcall[k].pc = "touchPersist"
    /\ registryFile' = wallets
    /\ wcall' = Returned(k, "success")
    /\ LET normalized == wcall[k].wallet.addressNormalized
       IN  phase' = IF phase[normalized] = "deleted"
                    THEN [phase EXCEPT ![normalized] = "consumed"]
                    ELSE phase
    /\ UNCHANGED <<wallets, nonceStore, nonceFile, wstarted, now>>
    /\ UNCHANGED nonWalletVars

\* the registry write of touch() throws
VerifyTouchFail(k) ==
    /\ wcall[k].pc = "touchPersist"
    /\ wcall' = Returned(k, "error")
    /\ UNCHANGED <<wallets, registryFile, nonceStore, nonceFile, wstarted, phase, now>>
    /\ UNCHANGED nonWalletVars

\* the clock advances by half a nonce lifetime
WalletTick ==
    /\ 2 * now < MaxTicks * WALLET_NONCE_TTL_SECONDS
    /\ now' = now + WALLET_NONCE_TTL_SECONDS \div 2
    /\ UNCHANGED walletVars
    /\ UNCHANGED nonWalletVars

\* the state after initialize() of a fresh installation: no wallet, no nonce
WalletInit ==
    /\ wallets = [a \in WalletKeys |-> NoWallet]
    /\ registryFile = wallets
    /\ nonceStore = [a \in WalletKeys |-> NoNonce]
    /\ nonceFile = nonceStore
    /\ wcall = [k \in WalletCalls |-> IdleWalletCall]
    /\ wstarted = 0
    /\ phase = [a \in WalletKeys |-> "none"]

WalletNext ==
    \/ \E k \in WalletCalls, in \in IssueInputs : IssueRegister(k, in)
    \/ \E k \in WalletCalls, in \in IssueInputs : IssueKnown(k, in)
    \/ \E k \in WalletCalls : IssueRegistered(k)
    \/ \E k \in WalletCalls : IssueRegisterFail(k)
    \/ \E k \in WalletCalls, address \in VerifyAddresses :
           \E signature \in Signatures(address) : VerifyStart(k, address, signature)
    \/ \E k \in WalletCalls : VerifyResume(k)
    \/ \E k \in WalletCalls : NoncePersisted(k)
    \/ \E k \in WalletCalls : NoncePersistFail(k)
    \/ \E k \in WalletCalls : VerifyConsumed(k)
    \/ \E k \in WalletCalls : VerifyTouched(k)
    \/ \E k \in WalletCalls : VerifyTouchFail(k)
    \/ WalletTick

(***************************************************************************)
(* POST /wallet/challenge and POST /wallet/verify: the response status     *)
(***************************************************************************)
\* the error middleware, lines 249-258: an HttpError answers with its statusCode, any
\* other error with 500
errorMiddleware(err) == IF err.http THEN err.statusCode ELSE 500

\* the handlers, lines 192-245, for a body that holds the address (and signature):
\* the result of the service call is answered with 200; an error of the service,
\* thrown as `new Error(message)`, is handed to the error middleware
ResponseStatus(k) ==
    IF wcall[k].result \in {"ok", "success"} THEN 200
    ELSE errorMiddleware([http |-> FALSE, statusCode |-> 0, message |-> wcall[k].result])

(***************************************************************************)
(* AuditLogService.query                                                   *)
(***************************************************************************)
\* options of a query: filters.actorId (Undefined: no filter), direction, limit and
\* cursor (<<>>: none, <<c>>: the sequence Number(cursor))
QueryOptions ==
    [actorId : {Undefined, "u1"}, direction : {"asc", "desc"},
     limit : {1, 2}, cursor : {<<>>, <<1>>}]

NoQuery == [asked |-> FALSE]

\* applyFilters / the predicate of buildWhereClause, for the actorId filter
applyFilters(entries, filters) ==
    SelectSeq(entries, LAMBDA e : filters.actorId = Undefined \/ e.actorId = filters.actorId)

\* stable sort by descending sequence: sort((a, b) => b.sequence - a.sequence)
RECURSIVE InsertByDescSequence(_, _)
InsertByDescSequence(sorted, e) ==
    IF sorted = <<>> THEN <<e>>
    ELSE IF sorted[Len(sorted)].sequence >= e.sequence THEN Append(sorted, e)
    ELSE Append(InsertByDescSequence(SubSeq(sorted, 1, Len(sorted) - 1), e),
                sorted[Len(sorted)])

RECURSIVE SortByDescSequence(_)
SortByDescSequence(entries) ==
    IF entries = <<>> THEN <<>>
    ELSE InsertByDescSequence(SortByDescSequence(SubSeq(entries, 1, Len(entries) - 1)),
                              entries[Len(entries)])

\* readAllEntries: the lines of the file, newest first; [] when the file cannot be read
readAllEntries == IF auditFileExists THEN SortByDescSequence(auditLog) ELSE <<>>

\* sortEntries
sortEntries(entries, direction) ==
    IF direction = "asc" THEN Reverse(SortByDescSequence(entries))
    ELSE SortByDescSequence(entries)

\* resolveCursorIndex: the index after the entry with the cursor's sequence, 0 when
\* there is no cursor or no such entry (indices count from 0)
resolveCursorIndexAtHit(entries, cursor) ==
    IF cursor = <<>> THEN 0
    ELSE LET hits == {i \in 1..Len(entries) : entries[i].sequence = cursor[1]}
         IN  IF hits = {} THEN 0 ELSE (CHOOSE i \in hits : \A j \in hits : i <= j) - 1

resolveCursorIndex(entries, cursor) ==
    IF cursor = <<>> THEN 0
    ELSE LET hits == {i \in 1..Len(entries) : entries[i].sequence = cursor[1]}
         IN  IF hits = {} THEN 0 ELSE CHOOSE i \in hits : \A j \in hits : i <= j

\* query of the file-backed service, lines 103-120
FileQueryResult(options) ==
    LET entries == readAllEntries
        filtered == applyFilters(entries, options)
        ordered == sortEntries(filtered, options.direction)
        limit == options.limit
        startIndex == resolveCursorIndex(ordered, options.cursor)
        last == IF startIndex + limit < Len(ordered) THEN startIndex + limit
                ELSE Len(ordered)
        window == SubSeq(ordered, startIndex + 1, last)
        nextCursor == IF Len(window) = limit THEN <<window[Len(window)].sequence>> ELSE <<>>
    IN  [asked |-> TRUE, options |-> options, log |-> entries, entries |-> window,
         totalMatches |-> Len(filtered), hasMore |-> nextCursor # <<>>,
         nextCursor |-> nextCursor]

\* buildCursorPredicate: sequence < cursor (desc) or sequence > cursor (asc)
buildCursorPredicate(cursor, direction, sequence) ==
    IF cursor = <<>> THEN TRUE
    ELSE IF direction = "desc" THEN sequence < cursor[1] ELSE sequence > cursor[1]

\* query of the database-backed service, lines 142-195: the SELECT returns at most
\* limit + 1 rows of those that satisfy the WHERE clause, each carrying
\* COUNT(*) OVER (), the number of rows that satisfy the WHERE clause
SqlQueryResult(options) ==
    LET matching ==
            SelectSeq(applyFilters(auditLog, options),
                      LAMBDA row : buildCursorPredicate(options.cursor, options.direction,
                                                        row.sequence))
        ordered == sortEntries(matching, options.direction)
        limit == options.limit
        rows == Slice(ordered, limit + 1)
        hasMore == Len(rows) > limit
        entries == Slice(rows, limit)
        totalMatches == IF rows # <<>> THEN Len(matching) ELSE Len(entries)
        nextCursor == IF hasMore /\ entries # <<>>
                      THEN <<entries[Len(entries)].sequence>> ELSE <<>>
    IN  [asked |-> TRUE, options |-> options, log |-> auditLog, entries |-> entries,
         totalMatches |-> totalMatches, hasMore |-> hasMore, nextCursor |-> nextCursor]

NoTraversal == [pages |-> <<>>, log |-> <<>>, same |-> FALSE]

\* a query without cursor starts a traversal; one with a cursor of the caller's own
\* belongs to none
StartTraversal(result) ==
    IF result.options.cursor = <<>>
    THEN [pages |-> <<result.entries>>, log |-> result.log, same |-> TRUE]
    ELSE NoTraversal

\* the next page of the traversal
ContinueTraversal(result) ==
    [pages |-> Append(trav.pages, result.entries), log |-> trav.log,
     same |-> trav.same /\ result.log = trav.log]

\* the options of the last query, with the cursor it returned
FollowOptions == [qres.options EXCEPT !.cursor = qres.nextCursor]

QueryFile(options) ==
    /\ backend = "file"
    /\ qres' = FileQueryResult(options)
    /\ trav' = StartTraversal(qres')
    /\ UNCHANGED <<auditVars, poolVars, httpVars, walletVars, scored>>

QuerySql(options) ==
    /\ backend = "sql"
    /\ qres' = SqlQueryResult(options)
    /\ trav' = StartTraversal(qres')
    /\ UNCHANGED <<auditVars, poolVars, httpVars, walletVars, scored>>

\* the caller passes the returned nextCursor to the next query
QueryFileFollow ==
    /\ backend = "file"
    /\ trav.pages # <<>> /\ Len(trav.pages) < MaxPages
    /\ qres.nextCursor # <<>>
    /\ qres' = FileQueryResult(FollowOptions)
    /\ trav' = ContinueTraversal(qres')
    /\ UNCHANGED <<auditVars, poolVars, httpVars, walletVars, scored>>

QuerySqlFollow ==
    /\ backend = "sql"
    /\ trav.pages # <<>> /\ Len(trav.pages) < MaxPages
    /\ qres.nextCursor # <<>>
    /\ qres' = SqlQueryResult(FollowOptions)
    /\ trav' = ContinueTraversal(qres')
    /\ UNCHANGED <<auditVars, poolVars, httpVars, walletVars, scored>>

QueryInit == qres = NoQuery /\ trav = NoTraversal /\ scored = NoScore

\* a calculatePriority call on any transaction and any statistics
ScoreInit ==
    /\ qres = NoQuery /\ trav = NoTraversal
    /\ scored \in [tx : ScoreTxs, stats : ScoreStats, asked : {TRUE},
                   breakdown : {NoBreakdown}]

\* queries made while record() calls run and complete
QueryNext ==
    \/ \E c \in Calls, input \in RecordInputs : FileRecordStart(c, input)
    \/ \E c \in Calls : FileAppendWrite(c)
    \/ \E c \in Calls : FileAppendResume(c)
    \/ \E c \in Calls : RotateStat(c)
    \/ \E c \in Calls, input \in RecordInputs : SqlRecordStart(c, input)
    \/ \E c \in Calls : SqlInsert(c)
    \/ \E c \in Calls : SqlResume(c)
    \/ \E options \in QueryOptions : QueryFile(options)
    \/ \E options \in QueryOptions : QuerySql(options)
    \/ QueryFileFollow
    \/ QuerySqlFollow

(***************************************************************************)
(* AuditLogService.initialize on a durable log file                        *)
(***************************************************************************)
\* a line of the file that JSON.parse rejects (the torn tail of an interrupted
\* append): it carries no id
TornLine == [SeedEntry EXCEPT !.id = Undefined, !.integrityHash = sha256(<<"torn">>)]

Parseable(line) == line.id # Undefined

\* the entry that follows SeedEntry in the chain
NextPayload ==
    [sequence |-> SeedEntry.sequence + 1, channel |-> "node"] @@ PayloadOf(FullInput, 0)

NextEntry ==
    NextPayload @@
    [id |-> "AUD-1", prevHash |-> SeedEntry.integrityHash,
     integrityHash |-> sha256(StringifyFilePayload(SeedEntry.integrityHash, NextPayload))]

\* the durable log files initialize() may find: the committed entries, with a torn
\* line anywhere or none
StoredLines == {SeedEntry, NextEntry, TornLine}

StoredLogs ==
    {log \in UNION {[1..n -> StoredLines] : n \in 0..3} :
        \A i, j \in 1..Len(log) : i # j => log[i] # log[j]}

\* the tail bootstrapStateFromFile computes from parsed entries, lines 177-184; an
\* empty file leaves the tail as it is
Hydrate(entries) ==
    IF entries = <<>>
    THEN [nextSequence |-> nextSequence, lastIntegrityHash |-> lastIntegrityHash,
          cache |-> cache]
    ELSE LET sorted == SortBySequence(entries)
             last == sorted[Len(sorted)]
         IN  [nextSequence |-> last.sequence + 1, lastIntegrityHash |-> last.integrityHash,
              cache |-> Reverse(SliceLast(sorted, CACHE_SIZE))]

\* initialize(), lines 43-51: a missing file is created empty and initialize returns
InitializeBegin(c) ==
    /\ backend = "file"
    /\ started = 0 /\ FreeSlot(c)
    /\ started' = started + 1
    /\ IF auditFileExists
       THEN /\ rec' = [rec EXCEPT ![c].pc = "initBoot"]
            /\ UNCHANGED auditFileExists
       ELSE /\ rec' = [rec EXCEPT ![c] = [IdleCall EXCEPT !.result = "ok"]]
            /\ auditFileExists' = TRUE
    /\ UNCHANGED <<backend, auditLog, auditArchives, nextSequence, lastIntegrityHash,
                   cache, dbSerial, now, uuidCtr, appended, overlapped, swept,
                   appendFailed, startedEmpty>>
    /\ UNCHANGED nonAuditVars

\* bootstrapStateFromFile, lines 171-192, called by initialize: every line is parsed;
\* when JSON.parse throws, the catch writes "" to the log file and resets the tail
InitializeBootstrap(c) ==
    /\ backend = "file"
    /\ rec[c].pc = "initBoot"
    /\ IF \A i \in 1..Len(auditLog) : Parseable(auditLog[i])
       THEN /\ nextSequence' = Hydrate(auditLog).nextSequence
            /\ lastIntegrityHash' = Hydrate(auditLog).lastIntegrityHash
            /\ cache' = Hydrate(auditLog).cache
            /\ UNCHANGED <<auditLog, swept>>
       ELSE /\ auditLog' = <<>>
            /\ cache' = <<>>
            /\ nextSequence' = 1
            /\ lastIntegrityHash' = AUDIT_ROOT
            /\ swept' = TRUE
    /\ rec' = [rec EXCEPT ![c].pc = "initRetention",
                          ![c].cutoff = now - AUDIT_RETENTION_DAYS * DAY_IN_S]
    /\ UNCHANGED <<backend, auditFileExists, auditArchives, dbSerial, now, uuidCtr,
                   started, appended, overlapped, appendFailed, startedEmpty>>
    /\ UNCHANGED nonAuditVars

\* enforceRetention, lines 280-301, called by initialize: the entries older than the
\* cutoff are dropped, the file is rewritten and the tail rehydrated from it
InitializeRetention(c) ==
    /\ backend = "file"
    /\ rec[c].pc = "initRetention"
    /\ LET retained == SelectSeq(auditLog, LAMBDA e : e.timestamp >= rec[c].cutoff)
       IN  IF AUDIT_RETENTION_DAYS <= 0 \/ Len(retained) = Len(auditLog)
           THEN UNCHANGED <<auditLog, nextSequence, lastIntegrityHash, cache, swept>>
           ELSE /\ auditLog' = Rewritten(SortBySequence(retained))
                /\ nextSequence' = Hydrate(retained).nextSequence
                /\ lastIntegrityHash' = Hydrate(retained).lastIntegrityHash
                /\ cache' = Hydrate(retained).cache
                /\ swept' = TRUE
    /\ rec' = [rec EXCEPT ![c].pc = "initStat", ![c].cutoff = 0]
    /\ UNCHANGED <<backend, auditFileExists, auditArchives, dbSerial, now, uuidCtr,
                   started, appended, overlapped, appendFailed, startedEmpty>>
    /\ UNCHANGED nonAuditVars

\* rotateIfNeeded, lines 303-323, called by initialize: a file that reached
\* AUDIT_LOG_MAX_BYTES becomes an archive and the log starts empty; the bootstrap of
\* the empty file leaves the tail as it is
InitializeRotate(c) ==
    /\ backend = "file"
    /\ rec[c].pc = "initStat"
    /\ IF AUDIT_LOG_MAX_BYTES > 0 /\ FileBytes >= AUDIT_LOG_MAX_BYTES
       THEN /\ auditArchives' = Append(auditArchives, auditLog)
            /\ auditLog' = <<>>
            /\ swept' = TRUE
       ELSE UNCHANGED <<auditArchives, auditLog, swept>>
    /\ rec' = [rec EXCEPT ![c] = [IdleCall EXCEPT !.result = "ok"]]
    /\ UNCHANGED <<backend, auditFileExists, nextSequence, lastIntegrityHash, cache,
                   dbSerial, now, uuidCtr, started, appended, overlapped, appendFailed,
                   startedEmpty>>
    /\ UNCHANGED nonAuditVars

\* a constructed service that has not run initialize(), on any durable log file, at
\* any time; appended holds the lines that were committed before the start
ReloadInit ==
    /\ backend = "file"
    /\ auditFileExists \in BOOLEAN
    /\ auditLog \in IF auditFileExists THEN StoredLogs ELSE {<<>>}
    /\ auditArchives = <<>>
    /\ nextSequence = 1
    /\ lastIntegrityHash = AUDIT_ROOT
    /\ cache = <<>>
    /\ dbSerial = 1
    /\ rec = [c \in Calls |-> IdleCall]
    /\ now \in {0, TickStep}
    /\ uuidCtr = 1
    /\ started = 0
    /\ appended = auditLog
    /\ overlapped = FALSE
    /\ swept = FALSE
    /\ appendFailed = FALSE
    /\ startedEmpty = (auditLog = <<>>)

ReloadNext ==
    \/ \E c \in Calls : InitializeBegin(c)
    \/ \E c \in Calls : InitializeBootstrap(c)
    \/ \E c \in Calls : InitializeRetention(c)
    \/ \E c \in Calls : InitializeRotate(c)

(***************************************************************************)
(* Specifications                                                          *)
(***************************************************************************)
\* an audit service that is initialized on an empty log and sees no call
AuditQuiet ==
    /\ AuditInit
    /\ backend = "file"
    /\ auditLog = <<>>

InitAudit == AuditInit /\ PoolInit /\ HttpInit /\ WalletInit /\ QueryInit
SpecAudit == InitAudit /\ [][AuditNext]_vars

InitMempool == AuditQuiet /\ PoolInit /\ HttpInit /\ WalletInit /\ QueryInit
SpecMempool == InitMempool /\ [][MempoolNext]_vars

SpecTier == InitMempool /\ [][TierNext]_vars

InitHttp == AuditQuiet /\ PoolInit /\ HttpInit /\ WalletInit /\ QueryInit
SpecHttp == InitHttp /\ [][HttpNext]_vars

InitWallet == AuditQuiet /\ PoolInit /\ HttpInit /\ WalletInit /\ QueryInit
SpecWallet == InitWallet /\ [][WalletNext]_vars

SpecQuery == InitAudit /\ [][QueryNext]_vars

InitReload == ReloadInit /\ PoolInit /\ HttpInit /\ WalletInit /\ QueryInit
SpecReload == InitReload /\ [][ReloadNext]_vars

InitScore == AuditQuiet /\ PoolInit /\ HttpInit /\ WalletInit /\ ScoreInit
SpecScore == InitScore /\ [][ScoreNext]_vars

(***************************************************************************)
(* Properties of the audit log                                             *)
(***************************************************************************)
AllCallsReturned == \A c \in Calls : rec[c].pc = "idle"

ChainLinked(log) ==
    \A i \in 1..Len(log) :
        log[i].prevHash = IF i = 1 THEN AUDIT_ROOT ELSE log[i - 1].integrityHash

\* C1: after record() calls that never overlap, starting from an empty log and with
\* no rotation or retention sweep, the first appended entry has prevHash AUDIT_ROOT
\* and every later one has the integrityHash of the entry appended just before it
C1_ChainLinkage ==
    (startedEmpty /\ ~overlapped /\ ~swept) => ChainLinked(appended) /\ auditLog = appended

\* two calls have returned one after the other, each with its entry in the log
C1_Witness ==
    /\ startedEmpty /\ ~overlapped /\ ~swept
    /\ AllCallsReturned
    /\ Len(appended) = 2
    /\ appended[1].prevHash = AUDIT_ROOT
    /\ appended[2].prevHash = appended[1].integrityHash

\* the digest recomputed from the stored fields of an entry, all fifteen of them
RecomputedHash(e) == sha256(StringifyFilePayload(e.prevHash, e))

\* C2: every appended entry's stored integrityHash equals the hash of its stored
\* prevHash, sequence, timestamp, action, actorId, actorType, resource, outcome,
\* patientId, ipAddress, blockHash, details, metadata, tags and channel
C2_HashRecomputable ==
    \A i \in 1..Len(auditLog) : auditLog[i].integrityHash = RecomputedHash(auditLog[i])

\* C3: with calls that do not overlap, some of which fail at the durable write, the
\* sequences in the log of a service started empty and never swept are 1, 2, 3, ...
\* in append order
C3_ContiguousSequences ==
    (startedEmpty /\ ~overlapped /\ ~swept) =>
        \A i \in 1..Len(auditLog) : auditLog[i].sequence = i

\* C4: when record() calls overlap, no two appended entries share a prevHash and no
\* two share a sequence
C4_AppendSerialized ==
    overlapped =>
        \A i, j \in 1..Len(appended) :
            i < j => /\ appended[i].prevHash # appended[j].prevHash
                     /\ appended[i].sequence # appended[j].sequence

(***************************************************************************)
(* Properties of the mempool                                               *)
(***************************************************************************)
Range(s) == {s[i] : i \in 1..Len(s)}

NonIncreasing(queue) ==
    \A i \in 1..Len(queue) - 1 : queue[i].priority >= queue[i + 1].priority

\* C5: in every state reached from the empty mempool by addTransaction,
\* removeTransaction and flushTransactions, each tier holds at most its capacity
\* and its priorities are non-increasing from first to last
C5_CapacityAndOrder ==
    \A tier \in 1..3 :
        /\ Len(getQueue(tier)) <= getCapacity(tier)
        /\ NonIncreasing(getQueue(tier))

\* tier 1 is full with two different priorities right after an add that evicted
C5_Witness ==
    /\ lastAdd.tier = 1
    /\ lastAdd.evicted # <<>>
    /\ Len(snapshot.tier1) = Tier1Capacity
    /\ snapshot.tier1[1].priority > snapshot.tier1[Len(snapshot.tier1)].priority

\* C6: an add into a tier at capacity evicts exactly one entry, of a priority not
\* above any remaining one, keeps the size at capacity and leaves the other entries
\* as they were; an incoming entry not above any existing one is itself evicted; an
\* add into a tier below capacity evicts nothing
C6_Eviction ==
    lastAdd.tier # 0 =>
        LET capacity == getCapacity(lastAdd.tier)
            before == lastAdd.before
            after == lastAdd.after
            entry == lastAdd.entry
        IN  IF Len(before) >= capacity
            THEN /\ Len(lastAdd.evicted) = 1
                 /\ Len(after) = capacity
                 /\ \A e \in Range(after) : lastAdd.evicted[1].priority <= e.priority
                 /\ SelectSeq(after, LAMBDA e : e # entry)
                        = SelectSeq(before, LAMBDA e : e # lastAdd.evicted[1])
                 /\ (\A e \in Range(before) : entry.priority <= e.priority)
                        => lastAdd.evicted[1] = entry
            ELSE /\ lastAdd.evicted = <<>>
                 /\ Len(after) = Len(before) + 1
                 /\ SelectSeq(after, LAMBDA e : e # entry) = before

\* an add into the full tier 1 evicted an older entry and kept the incoming one
C6_Witness ==
    /\ lastAdd.tier = 1
    /\ Len(lastAdd.before) = Tier1Capacity
    /\ Len(lastAdd.evicted) = 1
    /\ lastAdd.evicted[1] # lastAdd.entry
    /\ lastAdd.entry \in Range(lastAdd.after)

\* C7: for every priority p and hinted tier h the entry is placed in tier 1 if h = 1
\* or p >= 0.85, otherwise in tier 2 if h = 2 or p >= 0.60, otherwise in tier 3; so
\* p >= 0.85 gives tier 1 and 0.60 <= p < 0.85 gives tier 1 or 2 whatever the hint
C7_TierPlacement ==
    lastAdd.tier # 0 =>
        LET p == lastAdd.entry.priority
            h == lastAdd.entry.tx.tier
            placed == CHOOSE tier \in 1..3 : lastAdd.entry \in Range(getQueue(tier))
        IN  /\ \E tier \in 1..3 : lastAdd.entry \in Range(getQueue(tier))
            /\ placed = lastAdd.tier
            /\ (h = 1 \/ p >= 850000) => placed = 1
            /\ (~(h = 1 \/ p >= 850000) /\ (h = 2 \/ p >= 600000)) => placed = 2
            /\ (~(h = 1 \/ p >= 850000) /\ ~(h = 2 \/ p >= 600000)) => placed = 3
            /\ (p >= 600000 /\ p < 850000) => placed \in {1, 2}

\* an entry of priority exactly 0.85 without a hint has been placed in tier 1, or one
\* of priority exactly 0.60 in tier 2
C7_Witness ==
    /\ lastAdd.tier # 0
    /\ lastAdd.entry.tx.tier = NoTier
    /\ \/ lastAdd.entry.priority = 850000 /\ lastAdd.entry \in Range(snapshot.tier1)
       \/ lastAdd.entry.priority = 600000 /\ lastAdd.entry \in Range(snapshot.tier2)

(***************************************************************************)
(* Properties of POST /transactions                                        *)
(***************************************************************************)
Admitted(r) == req[r].tier # 0

TierOfPriority(p) == IF p >= 850000 THEN 1 ELSE IF p >= 600000 THEN 2 ELSE 3

VerifyCalls == {k \in WalletCalls : wcall[k].op = "verify"}

\* C9: once verifySignature has succeeded for a nonce the record is gone from the
\* store, and every verifySignature for that address that starts afterwards and
\* before a nonce is issued again fails with the no-active-nonce error
C9_SingleUse ==
    /\ \A a \in WalletKeys : phase[a] = "consumed" => nonceStore[a] = NoNonce
    /\ \A k \in VerifyCalls : wcall[k].late => wcall[k].result = "NoActiveNonce"

\* a verification succeeded and a later one with the same valid signature was
\* answered with the no-active-nonce error
C9_Witness ==
    \E j, k \in VerifyCalls :
        /\ j < k
        /\ wcall[j].result = "success"
        /\ wcall[k].late
        /\ wcall[k].signature = wcall[j].signature
        /\ normalize(wcall[k].address) = normalize(wcall[j].address)
        /\ wcall[k].result = "NoActiveNonce"

\* C10: of the verifySignature calls that overlap on one address and one issued
\* nonce at most one returns success
C10_AtMostOneSuccess ==
    \A j, k \in VerifyCalls :
        (/\ j # k
         /\ wcall[j].record.nonce # Undefined
         /\ wcall[j].record.nonce = wcall[k].record.nonce
         /\ wcall[j].result = "success")
            => wcall[k].result # "success"

(***************************************************************************)
(* C11: verification after the nonce's expiry                              *)
(***************************************************************************)
\* the verifySignature calls that found a nonce whose expiresAt lay before the time
\* of the call
LateCalls ==
    {k \in VerifyCalls : wcall[k].record.nonce # Undefined
                         /\ wcall[k].at > wcall[k].record.expiresAt}

\* the nonce a call found is no longer in the store
NonceGone(k) ==
    nonceStore[wcall[k].wallet.addressNormalized].nonce # wcall[k].record.nonce

\* C11 as stated: a verifySignature call made later than the nonce's expiresAt ends
\* with the "nonce expired" error whatever the signature, and the expired record is
\* removed from the nonce store
C11_ExpiredAlwaysReported ==
    \A k \in LateCalls :
        /\ NonceGone(k)
        /\ wcall[k].pc = "done" => wcall[k].result = "Expired"

\* C11 amended: a verifySignature call made later than the nonce's expiresAt never
\* succeeds and never reaches the signature check; the record is removed from the
\* in-memory store at once; the call ends with "nonce expired" when the nonce file
\* write succeeds and with the write's error when it fails
C11_ExpiredNeverSucceeds ==
    \A k \in LateCalls :
        /\ NonceGone(k)
        /\ wcall[k].pc \in {"expirePersist", "done"}
        /\ wcall[k].pc = "done" => wcall[k].result \in {"Expired", "error"}

\* a call that presented the owner's signature over the challenge after its expiry
\* has returned "nonce expired"
C11_Witness ==
    \E k \in LateCalls :
        /\ wcall[k].pc = "done"
        /\ wcall[k].result = "Expired"
        /\ wcall[k].signature.message = wcall[k].record.message
        /\ wcall[k].signature.signer = OwnerKey(wcall[k].wallet.addressNormalized)

(***************************************************************************)
(* C12: wallet authentication in front of POST /transactions               *)
(***************************************************************************)
\* the address has completed a challenge/verify
HasVerified(address) ==
    \E k \in VerifyCalls :
        /\ wcall[k].result = "success"
        /\ wcall[k].wallet.addressNormalized = normalize(address)

\* C12: a transaction is admitted through POST /transactions, and an audit entry
\* attributes the submission to an actorId, only if that actor's address has completed
\* a successful challenge/verify before
C12_WritesGatedByWalletAuth ==
    /\ \A r \in Requests :
           (Admitted(r) /\ req[r].body.actorId # Undefined)
               => HasVerified(req[r].body.actorId)
    /\ \A i \in 1..Len(auditLog) :
           (auditLog[i].action = "Transaction.Submit" /\ auditLog[i].actorId = "0xab")
               => HasVerified(auditLog[i].actorId)

(***************************************************************************)
(* C13: a failed snapshot write                                            *)
(***************************************************************************)
\* the entries the in-memory queues hold
QueuedEntries == UNION {Range(snapshot[key]) : key \in DOMAIN snapshot}

\* C13: when the snapshot write of an addTransaction has failed, the queues are
\* rolled back: the entry that call added is not in the mempool
C13_RollbackOnPersistFailure ==
    lastAdd.failed # 0 => \A e \in QueuedEntries : e.addedAt # lastAdd.failed

(***************************************************************************)
(* C14: the snapshot file against the in-memory snapshot                   *)
(***************************************************************************)
\* C14: a mempool mutation that completes leaves the snapshot file equal to the
\* in-memory snapshot: a removeTransaction made when no write is pending and the
\* file is up to date leaves the file up to date
C14_FileFollowsMemory ==
    [][(/\ pending = <<>>
        /\ mempoolFile = snapshot
        /\ \E txId \in TxIds : MempoolRemove(txId))
           => mempoolFile' = snapshot']_vars

(***************************************************************************)
(* C15: one registry entry per normalized address                          *)
(***************************************************************************)
\* the address trimmed and lower-cased
TrimLower(address) == IF address \in {"0xAB", " 0xab ", "0xab"} THEN "0xab" ELSE address

\* the calls that went through WalletRegistry.register / upsertMetamask and hold the
\* profile it returned
RegisterCalls == {k \in WalletCalls : wcall[k].op = "issue" /\ wcall[k].wallet # NoWallet}

Registered == {a \in WalletKeys : wallets[a] # NoWallet}

\* C15: register is idempotent by trimmed, lower-cased address: calls whose addresses
\* differ only in case or surrounding whitespace get a profile with the same id, and
\* no two profiles of the registry share a normalized address, also when the calls
\* overlap
C15_RegisterIdempotent ==
    /\ \A j, k \in RegisterCalls :
           TrimLower(wcall[j].address) = TrimLower(wcall[k].address)
               => wcall[j].wallet.id = wcall[k].wallet.id
    /\ \A a \in Registered :
           /\ wallets[a].addressNormalized = a
           /\ a = TrimLower(wallets[a].address)
    /\ \A a, b \in Registered :
           a # b => TrimLower(wallets[a].address) # TrimLower(wallets[b].address)

\* a second call, with the address written differently, got the profile of a first
\* call that is still awaiting its registry write
C15_Witness ==
    \E j, k \in RegisterCalls :
        /\ j # k
        /\ wcall[j].pc = "regPersist"
        /\ wcall[j].address # wcall[k].address
        /\ TrimLower(wcall[j].address) = TrimLower(wcall[k].address)
        /\ wcall[j].wallet.id = wcall[k].wallet.id
        /\ Cardinality(Registered) = 1

(***************************************************************************)
(* C16: the errors of verifySignature                                      *)
(***************************************************************************)
\* the call presented a signature over the challenge it found in the store, made with
\* the key of the wallet: its address for a MetaMask wallet, its registered public key
\* for a custom one
SignedByOwner(k) ==
    /\ wcall[k].signature.message = wcall[k].record.message
    /\ wcall[k].signature.signer = IF wcall[k].wallet.type = "metamask"
                                   THEN wcall[k].wallet.addressNormalized
                                   ELSE wcall[k].wallet.publicKey

\* the first of the four conditions that applied when the call was made, from what
\* the registry and the nonce store held then
FirstCondition(k) ==
    IF wcall[k].wallet = NoWallet THEN "NotRegistered"
    ELSE IF wcall[k].record = NoNonce THEN "NoActiveNonce"
    ELSE IF wcall[k].at > wcall[k].record.expiresAt THEN "Expired"
    ELSE IF ~SignedByOwner(k) THEN "SignatureInvalid"
    ELSE "none"

VerifyReturned == {k \in VerifyCalls : wcall[k].pc = "done"}

\* C16 as stated: every verifySignature call to which one of the four conditions
\* applies fails with the error of the first one that applies (unknown wallet, no
\* active nonce, nonce expired, signature invalid), and no failing call succeeds
C16_FirstConditionReported ==
    \A k \in VerifyReturned :
        IF FirstCondition(k) = "none"
        THEN wcall[k].result \in {"success", "error"}
        ELSE wcall[k].result = FirstCondition(k)

\* C16 amended: the same, except that a call that found an expired nonce reports the
\* error of the nonce file write when that write fails
C16_FirstConditionOrWriteError ==
    \A k \in VerifyReturned :
        IF FirstCondition(k) = "none"
        THEN wcall[k].result \in {"success", "error"}
        ELSE IF FirstCondition(k) = "Expired"
        THEN wcall[k].result \in {"Expired", "error"}
        ELSE wcall[k].result = FirstCondition(k)

\* a call to which two conditions applied, an expired nonce and a signature by
\* somebody else, has reported the expiry
C16_Witness ==
    \E k \in VerifyReturned :
        /\ wcall[k].at > wcall[k].record.expiresAt
        /\ wcall[k].record # NoNonce
        /\ ~SignedByOwner(k)
        /\ wcall[k].result = "Expired"

(***************************************************************************)
(* C17: the failures of issueNonce                                         *)
(***************************************************************************)
\* the declared family differs from the family of the registered wallet, or a custom
\* wallet is seen for the first time without a public key
IssueMustFail(in) ==
    LET registered == wallets[TrimLower(in.address)]
    IN  IF registered # NoWallet
        THEN in.walletType # Undefined /\ in.walletType # registered.type
        ELSE in.walletType = "custom" /\ in.customPublicKey = Undefined

\* C17: an issueNonce call that declares another family than the registered one, or
\* that brings a new custom wallet without a public key, fails, stores no nonce, leaves
\* the nonce already active for the address as it was and adds no wallet to the registry
C17_FailedIssueChangesNothing ==
    [][\A k \in WalletCalls, in \in IssueInputs :
           ((IssueRegister(k, in) \/ IssueKnown(k, in)) /\ IssueMustFail(in))
               => /\ wcall'[k].pc = "done"
                  /\ wcall'[k].result \in {"TypeMismatch", "MissingPublicKey"}
                  /\ nonceStore' = nonceStore
                  /\ nonceFile' = nonceFile
                  /\ wallets' = wallets
                  /\ registryFile' = registryFile]_vars

\* one call failed for the missing public key and left the wallet unregistered until
\* a later call; another failed for the family mismatch while the nonce issued before
\* it is still the active one
C17_Witness ==
    /\ \E k \in WalletCalls : wcall[k].result = "MissingPublicKey"
    /\ \E j, k \in WalletCalls :
           /\ j < k
           /\ wcall[j].op = "issue" /\ wcall[j].result = "ok"
           /\ wcall[k].result = "TypeMismatch"
           /\ wcall[k].wallet.type # wcall[k].type
           /\ TrimLower(wcall[j].address) = TrimLower(wcall[k].address)
           /\ nonceStore[TrimLower(wcall[k].address)] = wcall[j].record

(***************************************************************************)
(* Properties of AuditLogService.query                                     *)
(***************************************************************************)
\* the entries the query read that satisfy its filters
Matching == applyFilters(qres.log, qres.options)

\* sequence s lies strictly beyond sequence c in the direction of the query
Beyond(s, c) == IF qres.options.direction = "desc" THEN s < c ELSE s > c

\* C18: hasMore is true exactly when a matching entry lies beyond the returned page,
\* and nextCursor is present exactly when hasMore is true
C18_HasMoreIffFurtherPage ==
    qres.asked =>
        /\ qres.hasMore <=>
               /\ qres.entries # <<>>
               /\ \E e \in Range(Matching) :
                      Beyond(e.sequence, qres.entries[Len(qres.entries)].sequence)
        /\ (qres.nextCursor # <<>>) <=> qres.hasMore

\* C19: with a cursor c, every returned entry lies strictly beyond c in the direction
\* of the query
C19_PageBeyondCursor ==
    (qres.asked /\ qres.options.cursor # <<>>) =>
        \A e \in Range(qres.entries) : Beyond(e.sequence, qres.options.cursor[1])

\* C20: totalMatches is the number of log entries that satisfy the filters, whatever
\* the limit and the cursor
C20_TotalMatchesCountsAll ==
    qres.asked => qres.totalMatches = Len(Matching)

\* the pages of the traversal, one after the other
RECURSIVE Flatten(_)
Flatten(pages) ==
    IF pages = <<>> THEN <<>> ELSE Head(pages) \o Flatten(Tail(pages))

\* the traversal has ended: the last query returned no nextCursor, and every page read
\* the same log (no record() call changed it meanwhile)
TraversalDone == trav.pages # <<>> /\ trav.same /\ qres.nextCursor = <<>>

SelectAll == [actorId |-> Undefined, direction |-> "desc", limit |-> MaxRecords + 2,
              cursor |-> <<>>]

\* what query(SelectAll) returns in the current state
QueryAll == IF backend = "file" THEN FileQueryResult(SelectAll).entries
            ELSE SqlQueryResult(SelectAll).entries

\* the record() call in slot c returns its entry in this step
RecordReturns(c) == rec[c].pc # "idle" /\ rec'[c].pc = "idle" /\ rec'[c].result = "ok"

\* C22: the entry a successful record() call returns is afterwards returned by query
\* with identical values for all fields
C22_RoundTrip ==
    [][\A c \in Calls : RecordReturns(c) => \E e \in Range(QueryAll') : e = rec[c].entry]_vars

\* the integrityHash of the last parseable line, AUDIT_ROOT when there is none
LastValidHash(lines) ==
    LET valid == SelectSeq(lines, Parseable)
    IN  IF valid = <<>> THEN AUDIT_ROOT ELSE Hydrate(valid).lastIntegrityHash

\* initialize() reloads, in this step, a log that holds an unparseable line
ReloadsCorruptLog ==
    /\ \E c \in Calls : rec[c].pc = "initBoot" /\ rec'[c].pc # "initBoot"
    /\ \E i \in 1..Len(auditLog) : ~Parseable(auditLog[i])

\* C23: reloading a log with an unparseable entry removes no committed entry: the log
\* content is unchanged and lastIntegrityHash is the integrityHash of the last valid
\* entry
C23_ReloadKeepsCommitted ==
    [][ReloadsCorruptLog =>
           /\ auditLog' = auditLog
           /\ lastIntegrityHash' = LastValidHash(auditLog)]_vars

\* the entries as they were appended, with the entry the log held at the start
AsAppended == Range(appended) \cup {SeedEntry}

\* C24: every entry in the active log and every entry in an archive has exactly the
\* field values it had when it was appended
C24_SweepsNeverAlterEntries ==
    /\ Range(auditLog) \subseteq AsAppended
    /\ \A k \in 1..Len(auditArchives) : Range(auditArchives[k]) \subseteq AsAppended

\* a retention sweep has pruned the old entry and rewritten the file, which holds
\* the entry of the call that swept
C24_Witness ==
    \E c \in Calls :
        /\ rec[c].pc = "retentionBoot"
        /\ rec[c].entry \in Range(auditLog)
        /\ SeedEntry \notin Range(auditLog)

\* the id is queued in the tier
Holds(queue, txId) == \E i \in 1..Len(queue) : queue[i].id = txId

\* the snapshot without the first entry that carries the id, the tiers taken in the
\* order tier1, tier2, tier3
WithoutFirstMatch(snap, txId) ==
    LET first == IF Holds(snap.tier1, txId) THEN "tier1"
                 ELSE IF Holds(snap.tier2, txId) THEN "tier2" ELSE "tier3"
    IN  [snap EXCEPT ![first] = RemoveFirstMatch(snap[first], txId)]

\* C25: removeTransaction(id) removes the first entry matching id across the tiers, at
\* most one entry of the whole mempool, and leaves every other entry and the order
\* within each tier unchanged
C25_RemovesFirstMatchOnly ==
    [][\A txId \in TxIds :
           MempoolRemove(txId) => snapshot' = WithoutFirstMatch(snapshot, txId)]_vars

\* the positions of the mempool: a tier key and an index into its queue
Positions == {<<key, i>> \in (DOMAIN snapshot) \X (1..MaxAdds) : i <= Len(snapshot[key])}

\* C26: no two entries across the three tiers carry the same transaction id
C26_UniqueIds ==
    \A p, q \in Positions :
        snapshot[p[1]][p[2]].id = snapshot[q[1]][q[2]].id => p = q

\* the authentication failures of issueNonce and verifySignature
AuthFailures ==
    {"NotRegistered", "NoActiveNonce", "Expired", "SignatureInvalid", "TypeMismatch",
     "MissingPublicKey"}

\* C27: a wallet call that fails with an authentication failure is answered with
\* status 400
C27_AuthFailuresAnswered400 ==
    \A k \in WalletCalls :
        (wcall[k].pc = "done" /\ wcall[k].result \in AuthFailures) => ResponseStatus(k) = 400

(***************************************************************************)
(* Properties of ContextEngine.calculatePriority                           *)
(***************************************************************************)
Scored == scored.asked /\ scored.breakdown # NoBreakdown

\* C28: the five numbers of the breakdown lie in [0,1], priority is the clamped
\* weighted sum of the returned components, and resources is 0.5 without statistics
C28_BreakdownInRange ==
    Scored =>
        LET b == scored.breakdown
        IN  /\ \A x \in {b.criticality, b.sensitivity, b.resources, b.compliance} :
                   0 <= x /\ x <= 10000
            /\ 0 <= b.priority /\ b.priority <= 1000000
            /\ b.priority = clamp(45 * b.criticality + 35 * b.sensitivity
                                  + 10 * b.resources + 10 * b.compliance, 0, 1000000)
            /\ scored.stats = <<>> => b.resources = 5000

\* a full mempool with no validator online, whose raw score 0.2 - 0.5 is negative
C28_Witness ==
    /\ Scored
    /\ scored.stats # <<>>
    /\ scored.stats[1].capacity > 0 /\ scored.stats[1].size = scored.stats[1].capacity
    /\ scored.stats[1].validatorsTotal > 0 /\ scored.stats[1].validatorsOnline = 0
    /\ scored.breakdown.resources = 0

Matches(table, text) == {i \in 1..Len(table) : Test(table[i].pattern, text)}

\* the score of the earliest matching entry, the default when none matches
EarliestScore(table, text, default) ==
    IF Matches(table, text) = {} THEN default
    ELSE table[CHOOSE i \in Matches(table, text) : \A j \in Matches(table, text) : i <= j].score

\* C30: each keyword score is that of the earliest entry of its list that matches the
\* scanned text, and the default of the list (0.40, 0.50, 0.10) when none matches
C30_FirstMatchWins ==
    Scored =>
        LET text == extractPayloadText(scored.tx)
        IN  /\ scored.breakdown.criticality =
                   EarliestScore(CRITICALITY_KEYWORDS, scored.tx.type \o text, 4000)
            /\ scored.breakdown.sensitivity = EarliestScore(SENSITIVITY_FLAGS, text, 5000)
            /\ scored.breakdown.compliance = EarliestScore(COMPLIANCE_FLAGS, text, 1000)

\* a text that matches stroke, prescription and cardiac arrest, in this order of
\* appearance, and both compliance flags, is scored 0.95 and 0.50
C30_Witness ==
    /\ Scored
    /\ scored.tx.type = <<"stroke", "prescription">>
    /\ scored.tx.payload = <<<<"cardiac", "arrest", "stat">>,
                             <<"controlled", "substance", "prescription">>>>
    /\ Cardinality(Matches(CRITICALITY_KEYWORDS, extractPayloadText(scored.tx))) = 3
    /\ scored.breakdown.criticality = 9500
    /\ scored.breakdown.compliance = 5000

(***************************************************************************)
(* Properties of POST /transactions                                        *)
(***************************************************************************)
\* the request gets its response in this step, with the status
Answers(r, status) == req[r].pc # "done" /\ req'[r].pc = "done" /\ req'[r].status = status

\* the appended audit entries that describe the submission of the request
SubmitEntries(r) ==
    {i \in 1..Len(appended) :
        /\ appended[i].action = "Transaction.Submit"
        /\ appended[i].resource = "transaction:" \o req[r].id}

\* C31: a request answered 201 has appended exactly one Transaction.Submit entry for
\* its transaction, after the transaction was queued; a request answered 400 appends
\* nothing and leaves the audit state as it was
C31_OneAuditEntryPerSubmission ==
    [][\A r \in Requests :
           /\ Answers(r, 201) =>
                  /\ Cardinality(SubmitEntries(r)) = 1
                  /\ \A i \in SubmitEntries(r) : appended[i].metadata = SubmitInput(r).metadata
           /\ Answers(r, 400) => UNCHANGED auditVars]_vars

\* one request was answered 201 with its entry appended, another one 400
C31_Witness ==
    \E r, q \in Requests :
        /\ req[r].pc = "done" /\ req[r].status = 201
        /\ Cardinality(SubmitEntries(r)) = 1
        /\ req[q].pc = "done" /\ req[q].status = 400

\* the ids queued in a snapshot
IdsIn(snap) == {snap[key][i].id : <<key, i>> \in
                   {<<k, j>> \in (DOMAIN snap) \X (1..MaxAdds) : j <= Len(snap[k])}}

\* C32: a request that ended with an error response has left nothing in the mempool:
\* its transaction is neither in the in-memory queues nor in the durable snapshot
C32_FailedSubmissionNotQueued ==
    \A r \in Requests :
        (req[r].pc = "done" /\ req[r].status \in {400, 500}) =>
            req[r].id \notin IdsIn(snapshot) \cup IdsIn(mempoolFile)

\* the tail a freshly constructed service rehydrates from the durable log
RestartTail ==
    IF auditLog = <<>>
    THEN [nextSequence |-> 1, lastIntegrityHash |-> AUDIT_ROOT]
    ELSE [nextSequence |-> Hydrate(auditLog).nextSequence,
          lastIntegrityHash |-> Hydrate(auditLog).lastIntegrityHash]

\* C33: whenever no record() call of the file-backed service is in progress, the
\* in-memory tail equals the tail a restart would rehydrate from the durable log
C33_TailMatchesDurableLog ==
    (backend = "file" /\ AllCallsReturned) =>
        /\ nextSequence = RestartTail.nextSequence
        /\ lastIntegrityHash = RestartTail.lastIntegrityHash

\* C34: after a rotation has left the active log empty, the next entry recorded, by a
\* call that overlaps no other, starts a fresh chain: sequence 1 and prevHash
\* AUDIT_ROOT
C34_FreshLogAfterRotation ==
    [][(/\ backend = "file" /\ ~overlapped'
        /\ auditArchives # <<>> /\ auditLog = <<>> /\ auditLog' # <<>>)
           => /\ auditLog'[1].sequence = 1
              /\ auditLog'[1].prevHash = AUDIT_ROOT]_vars

\* no wallet call is suspended at a write
WalletQuiet == \A k \in WalletCalls : wcall[k].pc \in {"new", "done"}

\* C35: the removal of a nonce is atomic with its persistence: with no call in
\* progress, a nonce that is absent from the in-memory store is absent from the
\* durable nonce file
C35_RemovalPersisted ==
    WalletQuiet => \A a \in WalletKeys : nonceStore[a] = NoNonce => nonceFile[a] = NoNonce

\* the issueNonce calls that stored a record
IssuedCalls == {i \in WalletCalls : wcall[i].op = "issue" /\ wcall[i].record # NoNonce}

C37_FlushRemovesEveryMatch ==
    [][\A txIds \in FlushInputs :
           MempoolFlush(txIds) =>
               /\ \A key \in DOMAIN snapshot :
                      snapshot'[key] =
                          SelectSeq(snapshot[key], LAMBDA e : e.id \notin Range(txIds))
               /\ pending' = Append(pending, [content |-> snapshot', owner |-> 0,
                                              added |-> 0])]_vars

\* the entries of record() calls that have not returned yet
InFlightEntries == {rec[d].entry : d \in {c \in Calls : rec[c].pc # "idle"}}

\* C38: as long as no rotation has moved the log, every entry of a record() call
\* that has returned is in the active log unless its timestamp is older than the
\* retention cutoff; retention sweeps are then the only writers that remove entries
C38_SweepKeepsRecentEntries ==
    (backend = "file" /\ auditArchives = <<>>) =>
        \A e \in Range(appended) \ InFlightEntries :
            e.timestamp >= now - AUDIT_RETENTION_DAYS * DAY_IN_S => e \in Range(auditLog)


\* a step of verifySignature call k on the path to "Signature verification failed"
RejectingStep(k) ==
    /\ wcall'[k] # wcall[k]
    /\ wcall'[k].op = "verify"
    /\ \/ wcall'[k].result = "SignatureInvalid"
       \/ wcall'[k].pc = "sigCheck" /\ ~wcall'[k].verified

\* the nonce records on which some verifySignature call has failed its signature check
RejectedRecords ==
    {wcall[k].record : k \in {i \in WalletCalls : wcall[i].result = "SignatureInvalid"}}

\* the wallet's owner signs the message of the active nonce: with the registered
\* public key for a custom wallet, with the key of the address for a MetaMask wallet
ValidSignature(address, signature) ==
    /\ signature.signer = IF getWallet(address).type = "custom"
                          THEN getWallet(address).publicKey
                          ELSE normalize(address)
    /\ signature.message = nonceStore[normalize(address)].message

WalletStatuses == {"active", "revoked", "suspended"}

\* setStatus(address, status) = update(address, { status }): the profile with the new
\* status replaces the registered one and update() awaits the registry write; an
\* address the registry does not hold is rejected
SetStatus(k, address, status) ==
    /\ FreeWalletSlot(k)
    /\ LET normalized == normalize(address)
           current == wallets[normalized]
           updated == [current EXCEPT !.status = status]
           call == [IdleWalletCall EXCEPT !.op = "setStatus", !.address = address,
                                          !.at = now]
       IN  IF current = NoWallet
           THEN /\ wcall' = [wcall EXCEPT ![k] = [call EXCEPT !.pc = "done",
                                                              !.result = "NotFound"]]
                /\ UNCHANGED wallets
           ELSE /\ wallets' = [wallets EXCEPT ![normalized] = updated]
                /\ wcall' = [wcall EXCEPT ![k] = [call EXCEPT !.pc = "statusPersist",
                                                              !.wallet = updated]]
    /\ wstarted' = wstarted + 1
    /\ UNCHANGED <<registryFile, nonceStore, nonceFile, phase, now>>
    /\ UNCHANGED nonWalletVars

\* the registry write of update() completes: setStatus returns the updated profile
\* (at: the time of the return)
StatusPersisted(k) ==
    /\ wcall[k].pc = "statusPersist"
    /\ registryFile' = wallets
    /\ wcall' = [wcall EXCEPT ![k].pc = "done", ![k].result = "ok", ![k].at = now]
    /\ UNCHANGED <<wallets, nonceStore, nonceFile, wstarted, phase, now>>
    /\ UNCHANGED nonWalletVars

\* the registry write of update() throws: the new status stays in memory
StatusPersistFail(k) ==
    /\ wcall[k].pc = "statusPersist"
    /\ wcall' = Returned(k, "error")
    /\ UNCHANGED <<wallets, registryFile, nonceStore, nonceFile, wstarted, phase, now>>
    /\ UNCHANGED nonWalletVars

\* the wallet service with an administrator who changes wallet statuses
StatusNext ==
    \/ WalletNext
    \/ \E k \in WalletCalls, address \in VerifyAddresses, status \in WalletStatuses :
           SetStatus(k, address, status)
    \/ \E k \in WalletCalls : StatusPersisted(k)
    \/ \E k \in WalletCalls : StatusPersistFail(k)

SpecStatus == InitWallet /\ [][StatusNext]_vars

\* the setStatus calls that took address a out of service and returned before
\* call k started
Disabling(k, a) ==
    {j \in 1..(k - 1) : /\ wcall[j].op = "setStatus"
                        /\ wcall[j].result = "ok"
                        /\ wcall[j].at < wcall[k].at
                        /\ wcall[j].wallet.addressNormalized = a
                        /\ wcall[j].wallet.status # "active"}

\* C40: a verifySignature call for a wallet that setStatus has revoked or suspended,
\* and that is revoked or suspended when the call starts and still when it ends,
\* returns no session token
C40_DisabledWalletNeverVerifies ==
    \A k \in WalletCalls :
        ( /\ wcall[k].op = "verify"
          /\ wcall[k].result = "success"
          /\ Disabling(k, wcall[k].wallet.addressNormalized) # {} )
        => \/ wcall[k].wallet.status = "active"
           \/ wallets[wcall[k].wallet.addressNormalized].status = "active"

====
